---------------------------- MODULE Spec2Model ----------------------------
(***************************************************************************)
(* Nutrition tracker: date resolution, entry creation, nutrient            *)
(* aggregation and manual overrides.                                       *)
(*                                                                         *)
(* Conventions of the model                                                *)
(*  - an instant is a number of minutes since 1970-01-01T00:00Z;           *)
(*  - a date string is a sequence of one-character strings, so that the    *)
(*    pattern test, the parsing and the formatting are computed character  *)
(*    by character;                                                        *)
(*  - a nullable string is a record [isNull, str];                         *)
(*  - a stored quantity is a number of hundredths (DECIMAL(n,2)); the      *)
(*    quantities the page adds are double-precision numbers, held exactly. *)
(***************************************************************************)
EXTENDS Integers, Sequences, FiniteSets, TLC

VARIABLES
    call,         \* the pending call of a date function: its name and arguments
    ret,          \* what the call returned (NoRet until it has run)
    timezone,     \* user_settings.timezone of the user ("" when not set)
    entries,      \* table entries: the rows, in insertion order
    entry_items,  \* table entry_items: the rows, in insertion order
    nextId,       \* the next row id (stands for uuid_generate_v4)
    lastReq,      \* the last request handled, with its inputs and its response
    served,       \* the number of requests handled so far
    homeEntries,  \* the dashboard's entries state (what GET /api/entries gave)
    totals,       \* the dashboard's totals, once computed from homeEntries
    inflight,     \* the PATCH handlers that run at the same time, each with
                  \* its position and what it read
    daily_activity,  \* table daily_activity: the rows, in insertion order
    posting,      \* the POST /api/activity handlers, each with its position
    lastActivity  \* per user and date, the level of the last request that
                  \* succeeded (0 when none has)

dateVars == <<call, ret>>
appVars  == <<timezone, entries, entry_items, nextId, lastReq, served>>
homeVars == <<homeEntries, totals>>
restVars == <<inflight, daily_activity, posting, lastActivity>>
vars == <<call, ret, timezone, entries, entry_items, nextId, lastReq, served,
          homeEntries, totals, inflight, daily_activity, posting, lastActivity>>

\* The PATCH handlers that may run at the same time.
Handlers == {1, 2}

\* No PATCH handler has started.
IdleHandler == [pc |-> "idle", order |-> 0, status |-> 0]

\* No row of daily_activity, and no request for one.
IdleActivity ==
    /\ daily_activity = <<>>
    /\ posting = [h \in Handlers |-> IdleHandler]
    /\ lastActivity = {}

IdleRest == inflight = [h \in Handlers |-> IdleHandler] /\ IdleActivity

-----------------------------------------------------------------------------
(* Strings *)

Digits == <<"0", "1", "2", "3", "4", "5", "6", "7", "8", "9">>

IsDigit(c) == \E i \in 1..10 : Digits[i] = c

DigitVal(c) == (CHOOSE i \in 1..10 : Digits[i] = c) - 1

NullStr == [isNull |-> TRUE, str |-> <<>>]

Str(s) == [isNull |-> FALSE, str |-> s]

\* JavaScript truthiness of a nullable string: null and "" are falsy.
Truthy(o) == ~o.isNull /\ Len(o.str) > 0

-----------------------------------------------------------------------------
(* Calendar arithmetic, as the Date object and the formatting library do it *)

MinutesPerDay == 24 * 60

IsLeapYear(y) == (y % 4 = 0 /\ y % 100 # 0) \/ y % 400 = 0

DaysInMonth(y, m) ==
    IF m = 2 THEN (IF IsLeapYear(y) THEN 29 ELSE 28)
    ELSE IF m \in {4, 6, 9, 11} THEN 30 ELSE 31

\* The calendar fields of a day number (days since 1970-01-01).
CivilFromDays(z0) ==
    LET z   == z0 + 719468
        era == z \div 146097
        doe == z - era * 146097
        yoe == (doe - doe \div 1460 + doe \div 36524 - doe \div 146096) \div 365
        doy == doe - (365 * yoe + yoe \div 4 - yoe \div 100)
        mp  == (5 * doy + 2) \div 153
        d   == doy - (153 * mp + 2) \div 5 + 1
        m   == IF mp < 10 THEN mp + 3 ELSE mp - 9
        y   == yoe + era * 400 + (IF m <= 2 THEN 1 ELSE 0)
    IN  [year |-> y, month |-> m, day |-> d]

PadDigits(n, width) ==
    [i \in 1..width |-> Digits[((n \div (10 ^ (width - i))) % 10) + 1]]

\* format(date, 'yyyy-MM-dd') on a date given by its calendar fields.
FormatFields(f) ==
    PadDigits(f.year, 4) \o <<"-">> \o PadDigits(f.month, 2) \o <<"-">>
        \o PadDigits(f.day, 2)

\* format(date, 'yyyy-MM-dd'), the date given as wall-clock minutes.
format(wall) == FormatFields(CivilFromDays(wall \div MinutesPerDay))


\* The day number of a calendar date (the inverse of CivilFromDays).
DaysFromCivil(y0, m, d) ==
    LET y   == IF m <= 2 THEN y0 - 1 ELSE y0
        era == y \div 400
        yoe == y - era * 400
        doy == (153 * (IF m > 2 THEN m - 3 ELSE m + 9) + 2) \div 5 + d - 1
        doe == yoe * 365 + yoe \div 4 - yoe \div 100 + doy
    IN  era * 146097 + doe - 719468

\* The instant y-m-d hh:mm in UTC.
Utc(y, m, d, hh, mm) == DaysFromCivil(y, m, d) * MinutesPerDay + hh * 60 + mm

-----------------------------------------------------------------------------
(* Time zones: the IANA rules of the zones used, for the years covered *)

DEFAULT_TIMEZONE == "America/New_York"

Zones == {"America/New_York", "Europe/London", "America/Los_Angeles",
          "Asia/Tokyo", "UTC"}

StdOffset(tz) ==
    CASE tz = "America/New_York"    -> -300
      [] tz = "Europe/London"       -> 0
      [] tz = "America/Los_Angeles" -> -480
      [] tz = "Asia/Tokyo"          -> 540
      [] tz = "UTC"                 -> 0

\* The daylight-saving periods [from, to) of a zone, as UTC instants.
DstPeriods(tz) ==
    CASE tz = "America/New_York" ->
            {<<Utc(2024, 3, 10, 7, 0), Utc(2024, 11, 3, 6, 0)>>,
             <<Utc(2026, 3, 8, 7, 0),  Utc(2026, 11, 1, 6, 0)>>}
      [] tz = "America/Los_Angeles" ->
            {<<Utc(2024, 3, 10, 10, 0), Utc(2024, 11, 3, 9, 0)>>,
             <<Utc(2026, 3, 8, 10, 0),  Utc(2026, 11, 1, 9, 0)>>}
      [] tz = "Europe/London" ->
            {<<Utc(2024, 3, 31, 1, 0), Utc(2024, 10, 27, 1, 0)>>,
             <<Utc(2026, 3, 29, 1, 0), Utc(2026, 10, 25, 1, 0)>>}
      [] OTHER -> {}

\* The UTC offset, in minutes, that zone tz has at instant t.
TzOffset(tz, t) ==
    IF \E p \in DstPeriods(tz) : p[1] <= t /\ t < p[2]
    THEN StdOffset(tz) + 60
    ELSE StdOffset(tz)

\* toZonedTime(date, tz): a Date whose own fields read the wall clock that
\* zone tz shows at the instant; modelled by that wall clock, in minutes.
toZonedTime(t, tz) == t + TzOffset(tz, t)

\* Date.prototype.toLocaleDateString('en-CA', {timeZone: tz}): YYYY-MM-DD.
toLocaleDateString(t, tz) ==
    FormatFields(CivilFromDays((t + TzOffset(tz, t)) \div MinutesPerDay))

\* The instant a wall-clock time of zone tz denotes (what the Date setters
\* compute for local fields): the earlier instant when the wall time occurs
\* twice, the offset before the transition when it does not occur.
LocalToInstant(tz, wall) ==
    LET cands == {u \in {wall - StdOffset(tz), wall - StdOffset(tz) - 60} :
                     u + TzOffset(tz, u) = wall}
    IN  IF cands # {}
        THEN CHOOSE u \in cands : \A v \in cands : u <= v
        ELSE wall - StdOffset(tz)

-----------------------------------------------------------------------------
(* src/lib/date-resolution.ts *)

\* /^\d{4}-\d{2}-\d{2}$/.test(s)
MatchesDatePattern(s) ==
    /\ Len(s) = 10
    /\ \A i \in {1, 2, 3, 4, 6, 7, 9, 10} : IsDigit(s[i])
    /\ s[5] = "-"
    /\ s[8] = "-"

NDigits(s, from, n) ==
    LET RECURSIVE Acc(_, _)
        Acc(i, v) == IF i = from + n THEN v
                     ELSE Acc(i + 1, 10 * v + DigitVal(s[i]))
    IN  Acc(from, 0)

\* parse(s, 'yyyy-MM-dd', ref) on a string that matches the pattern: the
\* fields read, and whether the parsers accept them (isValid of the result).
parse(s) ==
    LET y == NDigits(s, 1, 4)
        m == NDigits(s, 6, 2)
        d == NDigits(s, 9, 2)
    IN  [year |-> y, month |-> m, day |-> d,
         valid |-> /\ y > 0
                   /\ m >= 1 /\ m <= 12
                   /\ d >= 1 /\ d <= DaysInMonth(y, m)]

isValidDateString_NoCalendar(dateStr) == MatchesDatePattern(dateStr)

isValidDateString(dateStr) ==
    IF ~MatchesDatePattern(dateStr) THEN FALSE
    ELSE parse(dateStr).valid

resolveDate_Rollover(explicitDate, clientTimestamp, userTimezone) ==
    IF Truthy(explicitDate) /\ isValidDateString(explicitDate.str)
    THEN [resolved_date |-> explicitDate.str, explicit_date_in_text |-> TRUE]
    ELSE [resolved_date |-> format(toZonedTime(clientTimestamp, userTimezone) + 180),
          explicit_date_in_text |-> FALSE]

\* new Date('YYYY-MM-DD') is midnight UTC of that date.
resolveDate_ViaUtcMidnight(explicitDate, clientTimestamp, userTimezone) ==
    IF Truthy(explicitDate) /\ isValidDateString(explicitDate.str)
    THEN LET f == parse(explicitDate.str)
         IN  [resolved_date |->
                  format(toZonedTime(Utc(f.year, f.month, f.day, 0, 0), userTimezone)),
              explicit_date_in_text |-> TRUE]
    ELSE [resolved_date |-> format(toZonedTime(clientTimestamp, userTimezone)),
          explicit_date_in_text |-> FALSE]

resolveDate(explicitDate, clientTimestamp, userTimezone) ==
    IF Truthy(explicitDate) /\ isValidDateString(explicitDate.str)
    THEN [resolved_date |-> explicitDate.str, explicit_date_in_text |-> TRUE]
    ELSE LET zonedDate == toZonedTime(clientTimestamp, userTimezone)
         IN  [resolved_date |-> format(zonedDate),
              explicit_date_in_text |-> FALSE]

getTodayInTimezone(now, userTimezone) ==
    format(toZonedTime(now, userTimezone))

\* zonedDate.setDate(zonedDate.getDate() - 1) moves the wall clock one day back.
getYesterdayInTimezone(now, userTimezone) ==
    format(toZonedTime(now, userTimezone) - MinutesPerDay)

isToday(dateStr, now, userTimezone) ==
    dateStr = getTodayInTimezone(now, userTimezone)

isYesterday(dateStr, now, userTimezone) ==
    dateStr = getYesterdayInTimezone(now, userTimezone)

-----------------------------------------------------------------------------
(* src/app/page.tsx: the dashboard's own today / yesterday *)

\* The effect that initialises the dates after authentication. now is the
\* browser's clock, tz the profile's time zone, browserTz the zone the
\* browser's Date setters work in.
HomeInitDates(now, tz, browserTz) ==
    LET todayStr      == toLocaleDateString(now, tz)
        yesterdayDate == LocalToInstant(browserTz,
                             (now + TzOffset(browserTz, now)) - MinutesPerDay)
        yesterdayStr  == toLocaleDateString(yesterdayDate, tz)
    IN  [today |-> todayStr, yesterday |-> yesterdayStr,
         selectedDate |-> todayStr]


-----------------------------------------------------------------------------
(* Inputs of the date functions *)

\* Field values from which explicit-date candidates are written, valid and not.
CandidateYears  == {2024, 2026}
CandidateMonths == {0, 1, 2, 4, 12, 13}
CandidateDays   == {0, 1, 15, 28, 29, 30, 31, 32}

CandidateFields ==
    [year : CandidateYears, month : CandidateMonths, day : CandidateDays]

\* MM-dd-yyyy
FormatUS(f) ==
    PadDigits(f.month, 2) \o <<"-">> \o PadDigits(f.day, 2) \o <<"-">>
        \o PadDigits(f.year, 4)

\* yyyy/MM/dd
FormatSlash(f) ==
    PadDigits(f.year, 4) \o <<"/">> \o PadDigits(f.month, 2) \o <<"/">>
        \o PadDigits(f.day, 2)

\* yyyy-M-d, not padded
FormatShort(f) ==
    PadDigits(f.year, 4) \o <<"-">> \o PadDigits(f.month % 10, 1) \o <<"-">>
        \o PadDigits(f.day % 10, 1)

LiteralStrings ==
    { <<>>,
      <<"y", "e", "s", "t", "e", "r", "d", "a", "y">>,
      <<"n", "o", "t", "-", "a", "-", "d", "a", "t", "e">>,
      <<"2", "0", "2", "6", "-", "0", "1", "-", "2", "9", " ">>,
      <<" ", "2", "0", "2", "6", "-", "0", "1", "-", "2", "9">>,
      <<"2", "0", "2", "6", "-", "0", "1", "-", "2", "x">>,
      <<"2", "0", "2", "6", "-", "0", "1", "/", "2", "9">>,
      <<"2", "0", "2", "6", "0", "1", "2", "9">> }

DateStrings ==
    {FormatFields(f) : f \in CandidateFields}
        \cup {FormatUS(f) : f \in {g \in CandidateFields : g.day \in {1, 29}}}
        \cup {FormatSlash(f) : f \in {g \in CandidateFields : g.day \in {1, 29}}}
        \cup {FormatShort(f) : f \in {g \in CandidateFields : g.day \in {1, 29}}}
        \cup LiteralStrings

\* What the parser may hand to resolveDate as the explicit date.
ExplicitDates ==
    {NullStr}
        \cup {Str(FormatFields(f)) :
                 f \in {g \in CandidateFields :
                           g.month \in {1, 2, 13} /\ g.day \in {15, 29}}}
        \cup {Str(s) : s \in {t \in LiteralStrings : Len(t) \in {0, 10, 11}}}

\* Days around which instants are drawn: the days of the test suite, the
\* daylight-saving changes, a leap day and a change of year.
SampleDays ==
    {<<2026, 1, 29>>, <<2026, 1, 30>>, <<2026, 3, 8>>, <<2026, 3, 9>>,
     <<2026, 3, 29>>, <<2026, 11, 1>>, <<2026, 11, 2>>, <<2024, 2, 29>>,
     <<2024, 3, 1>>, <<2026, 12, 31>>, <<2027, 1, 1>>}

SampleMinutes ==
    {0, 2, 30, 4 * 60 + 30, 4 * 60 + 58, 5 * 60 + 2, 7 * 60 + 58,
     14 * 60 + 58, 15 * 60, 21 * 60 + 30, 23 * 60 + 58}

Instants == {Utc(d[1], d[2], d[3], 0, 0) + m : d \in SampleDays, m \in SampleMinutes}

NoCall ==
    [fn |-> "none", explicitDate |-> NullStr, dateStr |-> <<>>, now |-> 0,
     userTimezone |-> DEFAULT_TIMEZONE, browserTz |-> "UTC"]

Calls ==
    {[NoCall EXCEPT !.fn = "isValidDateString", !.dateStr = s] : s \in DateStrings}
    \cup {[NoCall EXCEPT !.fn = "resolveDate", !.explicitDate = e, !.now = t,
                         !.userTimezone = tz] :
             e \in ExplicitDates, t \in Instants, tz \in Zones}
    \cup {[NoCall EXCEPT !.fn = "todayYesterday", !.now = t, !.userTimezone = tz] :
             t \in Instants, tz \in Zones}
    \cup {[NoCall EXCEPT !.fn = "HomeInitDates", !.now = t, !.userTimezone = tz,
                         !.browserTz = b] :
             t \in Instants, tz \in Zones, b \in Zones}

NoRet == [done |-> FALSE]

Returned(v) == [done |-> TRUE, value |-> v]

-----------------------------------------------------------------------------
(* The date functions applied to every input *)

InitDate ==
    /\ call \in Calls
    /\ ret = NoRet
    /\ timezone = "" /\ entries = <<>> /\ entry_items = <<>> /\ nextId = 1
    /\ lastReq = [op |-> "none", status |-> 0, id |-> 0] /\ served = 0
    /\ homeEntries = <<>> /\ totals = [done |-> FALSE]
    /\ IdleRest

CallResolveDate ==
    /\ call.fn = "resolveDate" /\ ~ret.done
    /\ ret' = Returned(resolveDate(call.explicitDate, call.now, call.userTimezone))
    /\ UNCHANGED <<call, appVars, homeVars, restVars>>

CallIsValidDateString ==
    /\ call.fn = "isValidDateString" /\ ~ret.done
    /\ ret' = Returned(isValidDateString(call.dateStr))
    /\ UNCHANGED <<call, appVars, homeVars, restVars>>

CallTodayYesterday ==
    /\ call.fn = "todayYesterday" /\ ~ret.done
    /\ ret' = Returned([today     |-> getTodayInTimezone(call.now, call.userTimezone),
                        yesterday |-> getYesterdayInTimezone(call.now, call.userTimezone)])
    /\ UNCHANGED <<call, appVars, homeVars, restVars>>

CallHomeInitDates ==
    /\ call.fn = "HomeInitDates" /\ ~ret.done
    /\ ret' = Returned(HomeInitDates(call.now, call.userTimezone, call.browserTz))
    /\ UNCHANGED <<call, appVars, homeVars, restVars>>

NextDate ==
    \/ CallResolveDate
    \/ CallIsValidDateString
    \/ CallTodayYesterday
    \/ CallHomeInitDates

SpecDate == InitDate /\ [][NextDate]_vars


-----------------------------------------------------------------------------
(* Properties of the date functions *)

\* The calendar, stated without the validator: the dates are the renderings
\* of the days of the years the candidates are drawn from.
CalendarDays == DaysFromCivil(2023, 1, 1) .. DaysFromCivil(2028, 12, 31)

RealDateStrings == {FormatFields(CivilFromDays(n)) : n \in CalendarDays}

\* The day number a YYYY-MM-DD string names.
DayOfString(s) ==
    DaysFromCivil(NDigits(s, 1, 4), NDigits(s, 6, 2), NDigits(s, 9, 2))

ResolveReturned == call.fn = "resolveDate" /\ ret.done

\* C1: an explicit date that matches YYYY-MM-DD and is a real calendar date
\* is returned unchanged, with explicit_date_in_text = TRUE, whatever the
\* submission instant and the time zone.
C1_ExplicitDateWins ==
    (ResolveReturned /\ ~call.explicitDate.isNull
        /\ call.explicitDate.str \in RealDateStrings)
    => ret.value = [resolved_date |-> call.explicitDate.str,
                    explicit_date_in_text |-> TRUE]

\* An explicit date was returned although the submission instant lies on
\* another local day.
C1_Witness ==
    /\ ResolveReturned
    /\ ~call.explicitDate.isNull
    /\ call.explicitDate.str \in RealDateStrings
    /\ ret.value.explicit_date_in_text
    /\ ret.value.resolved_date # toLocaleDateString(call.now, call.userTimezone)

\* C2: without a valid explicit date the result is the local calendar date
\* of the submission instant, flag FALSE: the instant lies between the local
\* midnight that starts the resolved day and the next one.
C2_TimestampFallback ==
    (ResolveReturned
        /\ (call.explicitDate.isNull \/ call.explicitDate.str \notin RealDateStrings))
    => /\ ret.value.explicit_date_in_text = FALSE
       /\ MatchesDatePattern(ret.value.resolved_date)
       /\ ret.value.resolved_date \in RealDateStrings
       /\ LET local == call.now + TzOffset(call.userTimezone, call.now)
              day   == DayOfString(ret.value.resolved_date)
          IN  /\ day * MinutesPerDay <= local
              /\ local < (day + 1) * MinutesPerDay

\* An invalid, non-null explicit date was ignored, and the local date differs
\* from the UTC date of the instant.
C2_Witness ==
    /\ ResolveReturned
    /\ Truthy(call.explicitDate)
    /\ ~ret.value.explicit_date_in_text
    /\ ret.value.resolved_date # format(call.now)

\* C4: isValidDateString accepts exactly the real calendar dates written as
\* YYYY-MM-DD; it rejects the empty string, other orders and separators,
\* month 13 and days the month does not have.
C4_ValidExactlyRealDates ==
    (call.fn = "isValidDateString" /\ ret.done)
    => /\ ret.value = (call.dateStr \in RealDateStrings)
       /\ ret.value => MatchesDatePattern(call.dateStr)
       /\ call.dateStr \in
              {<<>>, FormatFields([year |-> 2026, month |-> 13, day |-> 1]),
               FormatFields([year |-> 2026, month |-> 2, day |-> 30]),
               FormatUS([year |-> 2026, month |-> 1, day |-> 29]),
               FormatSlash([year |-> 2026, month |-> 1, day |-> 29])}
          => ret.value = FALSE

\* A string of the right shape was rejected because the month has no such day.
C4_Witness ==
    /\ call.fn = "isValidDateString" /\ ret.done
    /\ call.dateStr = FormatFields([year |-> 2026, month |-> 2, day |-> 29])
    /\ ret.value = FALSE

\* The calendar day before the one a YYYY-MM-DD string names.
DayBefore(s) == FormatFields(CivilFromDays(DayOfString(s) - 1))

\* C5: today is the date resolveDate gives without an explicit date, and
\* yesterday is the calendar day before today, for the library functions and
\* for the dashboard.
C5_TodayYesterday ==
    (call.fn \in {"todayYesterday", "HomeInitDates"} /\ ret.done)
    => /\ ret.value.today =
              resolveDate(NullStr, call.now, call.userTimezone).resolved_date
       /\ ret.value.yesterday = DayBefore(ret.value.today)
       /\ ret.value.yesterday # ret.value.today


-----------------------------------------------------------------------------
(* Quantities and food items.                                              *)
(* Every nutrient quantity is a number of hundredths, the precision of the *)
(* DECIMAL(n,2) columns that store it: 180.00 kcal is 18000.               *)

NutrientColumns ==
    {"calories", "calories_low", "calories_high",
     "protein_g", "protein_low", "protein_high",
     "carbs_g", "carbs_low", "carbs_high",
     "fat_g", "fat_low", "fat_high",
     "saturated_fat_g", "saturated_fat_low", "saturated_fat_high",
     "unsaturated_fat_g", "unsaturated_fat_low", "unsaturated_fat_high",
     "fiber_g", "fiber_low", "fiber_high",
     "sodium_mg", "sodium_low", "sodium_high",
     "added_sugar_g", "added_sugar_low", "added_sugar_high"}

\* A parsed food item: value, low, high of each nutrient, in this order:
\* calories, protein, carbs, fat, saturated fat, unsaturated fat, fiber,
\* sodium, added sugar.
FoodItem(name, cal, pro, carb, fat, sat, unsat, fib, sod, sug) ==
    [food_name |-> name,
     calories |-> cal[1], calories_low |-> cal[2], calories_high |-> cal[3],
     protein_g |-> pro[1], protein_low |-> pro[2], protein_high |-> pro[3],
     carbs_g |-> carb[1], carbs_low |-> carb[2], carbs_high |-> carb[3],
     fat_g |-> fat[1], fat_low |-> fat[2], fat_high |-> fat[3],
     saturated_fat_g |-> sat[1], saturated_fat_low |-> sat[2],
     saturated_fat_high |-> sat[3],
     unsaturated_fat_g |-> unsat[1], unsaturated_fat_low |-> unsat[2],
     unsaturated_fat_high |-> unsat[3],
     fiber_g |-> fib[1], fiber_low |-> fib[2], fiber_high |-> fib[3],
     sodium_mg |-> sod[1], sodium_low |-> sod[2], sodium_high |-> sod[3],
     added_sugar_g |-> sug[1], added_sugar_low |-> sug[2],
     added_sugar_high |-> sug[3]]

\* 200 kcal (180..220), as in the override example.
Toast ==
    FoodItem("toast", <<20000, 18000, 22000>>, <<1000, 900, 1100>>,
             <<2500, 2200, 2800>>, <<800, 700, 900>>, <<300, 200, 400>>,
             <<500, 400, 600>>, <<400, 300, 500>>, <<30000, 25000, 35000>>,
             <<200, 100, 300>>)

\* Point estimates of 0 with bounds that are not multiples of a tenth.
Coffee ==
    FoodItem("coffee", <<0, 0, 450>>, <<0, 0, 25>>, <<0, 0, 0>>,
             <<0, 0, 45>>, <<0, 0, 0>>, <<0, 0, 0>>, <<0, 0, 0>>,
             <<500, 0, 1000>>, <<0, 0, 0>>)

\* Decimal estimates.
Eggs ==
    FoodItem("eggs", <<14000, 12600, 15400>>, <<1080, 975, 1215>>,
             <<100, 90, 110>>, <<150, 135, 165>>, <<45, 40, 50>>,
             <<105, 95, 115>>, <<250, 225, 275>>, <<14000, 12000, 16000>>,
             <<0, 0, 0>>)

SampleItems == {Toast, Coffee, Eggs}

-----------------------------------------------------------------------------
(* src/app/api/entries/items/[id]/route.ts: the manual override *)

Absent == <<>>

Given(v) == <<v>>

Has(body, f) == body[f] # Absent

Val(body, f) == body[f][1]

NoBody ==
    [food_name |-> Absent, calories |-> Absent, protein_g |-> Absent,
     carbs_g |-> Absent, fat_g |-> Absent, fiber_g |-> Absent]

\* Math.round(n / d * unit) / unit for d > 0, on hundredths: the multiple of
\* step hundredths nearest to n / d, a half rounding up.
RoundRatio(n, d, step) == step * ((2 * n + d * step) \div (2 * d * step))

\* current.x > 0 ? x / current.x : 1, as numerator and denominator.
Ratio(new, old) == IF old > 0 THEN <<new, old>> ELSE <<1, 1>>

\* Math.round(bound * ratio): calories, to an integer.
RoundInt(bound, ratio) == RoundRatio(bound * ratio[1], ratio[2], 100)

\* Math.round(bound * ratio * 10) / 10: macros, to one decimal.
RoundTenth(bound, ratio) == RoundRatio(bound * ratio[1], ratio[2], 10)

Range(seq) == {seq[i] : i \in 1..Len(seq)}

\* The includes test left out: every override pushes.
PushOnce_Always(list, f) == Append(list, f)

\* if (!overriddenFields.includes(f)) overriddenFields.push(f)
PushOnce(list, f) == IF f \in Range(list) THEN list ELSE Append(list, f)

\* override_fields is NULL until the first override writes an array.
NullList == [isNull |-> TRUE, list |-> <<>>]

ListOf(l) == [isNull |-> FALSE, list |-> l]

Differs(body, current, f) == Has(body, f) /\ Val(body, f) # current[f]

\* The floor of 5 left out: only negative calories are refused.
ValidationError_NegativeOnly(body) ==
    IF Has(body, "calories") /\ Val(body, "calories") < 0
    THEN "Calories must be at least 5"
    ELSE IF Has(body, "protein_g") /\ Val(body, "protein_g") < 0
    THEN "Protein cannot be negative"
    ELSE IF Has(body, "carbs_g") /\ Val(body, "carbs_g") < 0
    THEN "Carbs cannot be negative"
    ELSE IF Has(body, "fat_g") /\ Val(body, "fat_g") < 0
    THEN "Fat cannot be negative"
    ELSE IF Has(body, "fiber_g") /\ Val(body, "fiber_g") < 0
    THEN "Fiber cannot be negative"
    ELSE ""

\* The validation that precedes every read: "" when the body passes, the
\* error message otherwise.
ValidationError(body) ==
    IF Has(body, "calories") /\ (Val(body, "calories") < 500 \/ Val(body, "calories") < 0)
    THEN "Calories must be at least 5"
    ELSE IF Has(body, "protein_g") /\ Val(body, "protein_g") < 0
    THEN "Protein cannot be negative"
    ELSE IF Has(body, "carbs_g") /\ Val(body, "carbs_g") < 0
    THEN "Carbs cannot be negative"
    ELSE IF Has(body, "fat_g") /\ Val(body, "fat_g") < 0
    THEN "Fat cannot be negative"
    ELSE IF Has(body, "fiber_g") /\ Val(body, "fiber_g") < 0
    THEN "Fiber cannot be negative"
    ELSE ""

OverrideName(current, body) ==
    IF Differs(body, current, "food_name")
    THEN [current EXCEPT !.food_name = Val(body, "food_name"),
                         !.override_fields = PushOnce(@, "food_name")]
    ELSE current

OverrideCalories_NoRescale(current, row, body) ==
    IF Differs(body, current, "calories")
    THEN [row EXCEPT !.calories = Val(body, "calories"),
                     !.override_fields = PushOnce(@, "calories")]
    ELSE row

\* current is the row as read, row the updates gathered so far.
OverrideCalories(current, row, body) ==
    IF Differs(body, current, "calories")
    THEN LET ratio == Ratio(Val(body, "calories"), current.calories)
         IN  [row EXCEPT !.calories = Val(body, "calories"),
                         !.calories_low = RoundInt(current.calories_low, ratio),
                         !.calories_high = RoundInt(current.calories_high, ratio),
                         !.override_fields = PushOnce(@, "calories")]
    ELSE row

OverrideProtein(current, row, body) ==
    IF Differs(body, current, "protein_g")
    THEN LET ratio == Ratio(Val(body, "protein_g"), current.protein_g)
         IN  [row EXCEPT !.protein_g = Val(body, "protein_g"),
                         !.protein_low = RoundTenth(current.protein_low, ratio),
                         !.protein_high = RoundTenth(current.protein_high, ratio),
                         !.override_fields = PushOnce(@, "protein_g")]
    ELSE row

OverrideCarbs(current, row, body) ==
    IF Differs(body, current, "carbs_g")
    THEN LET ratio == Ratio(Val(body, "carbs_g"), current.carbs_g)
         IN  [row EXCEPT !.carbs_g = Val(body, "carbs_g"),
                         !.carbs_low = RoundTenth(current.carbs_low, ratio),
                         !.carbs_high = RoundTenth(current.carbs_high, ratio),
                         !.override_fields = PushOnce(@, "carbs_g")]
    ELSE row

OverrideFat_TotalOnly(current, row, body) ==
    IF Differs(body, current, "fat_g")
    THEN LET ratio == Ratio(Val(body, "fat_g"), current.fat_g)
         IN  [row EXCEPT !.fat_g = Val(body, "fat_g"),
                         !.fat_low = RoundTenth(current.fat_low, ratio),
                         !.fat_high = RoundTenth(current.fat_high, ratio),
                         !.override_fields = PushOnce(@, "fat_g")]
    ELSE row

OverrideFat(current, row, body) ==
    IF Differs(body, current, "fat_g")
    THEN LET ratio == Ratio(Val(body, "fat_g"), current.fat_g)
         IN  [row EXCEPT !.fat_g = Val(body, "fat_g"),
                         !.fat_low = RoundTenth(current.fat_low, ratio),
                         !.fat_high = RoundTenth(current.fat_high, ratio),
                         !.saturated_fat_g =
                             RoundTenth(current.saturated_fat_g, ratio),
                         !.unsaturated_fat_g =
                             RoundTenth(current.unsaturated_fat_g, ratio),
                         !.override_fields = PushOnce(@, "fat_g")]
    ELSE row

OverrideFiber(current, row, body) ==
    IF Differs(body, current, "fiber_g")
    THEN [row EXCEPT !.fiber_g = Val(body, "fiber_g"),
                     !.override_fields = PushOnce(@, "fiber_g")]
    ELSE row

\* The row that PATCH writes for the row it read: the updates object applied
\* to current. override_fields is the working list while the blocks run.
BuildUpdates(current, body) ==
    LET start == [current EXCEPT !.has_override = TRUE,
                                 !.override_fields = current.override_fields.list]
        r1 == OverrideName(start, body)
        r2 == OverrideCalories(current, r1, body)
        r3 == OverrideProtein(current, r2, body)
        r4 == OverrideCarbs(current, r3, body)
        r5 == OverrideFat(current, r4, body)
        r6 == OverrideFiber(current, r5, body)
    IN  [r6 EXCEPT !.override_fields = ListOf(r6.override_fields)]


-----------------------------------------------------------------------------
(* The store and the two write handlers *)

NoUser == ""

\* getUserId(): the user of the session cookie, NoUser without a session.
Sessions == {"u1", NoUser}

RowIndex(table, id) ==
    IF \E i \in 1..Len(table) : table[i].id = id
    THEN CHOOSE i \in 1..Len(table) : table[i].id = id
    ELSE 0

\* String.prototype.trim on the texts the requests carry.
Trim(text) ==
    CASE text = "  "       -> ""
      [] text = " 2 eggs " -> "2 eggs"
      [] OTHER             -> text

\* verifyItemOwnership(supabase, itemId, userId)
verifyItemOwnership_AnyUser(itemId, userId) ==
    RowIndex(entry_items, itemId) # 0

verifyItemOwnership(itemId, userId) ==
    LET i == RowIndex(entry_items, itemId)
    IN  /\ i # 0
        /\ \E j \in 1..Len(entries) :
              /\ entries[j].id = entry_items[i].entry_id
              /\ entries[j].user_id = userId

NoRow == [id |-> 0]

\* PATCH /api/entries/items/[id]. updateFails: the database reports an error
\* on the update.
PatchItem(userId, id, body, updateFails) ==
    LET i       == RowIndex(entry_items, id)
        status  == IF userId = NoUser THEN 401
                   ELSE IF ValidationError(body) # "" THEN 400
                   ELSE IF ~verifyItemOwnership(id, userId) THEN 404
                   ELSE IF updateFails THEN 500
                   ELSE 200
    IN  /\ entry_items' =
               IF status = 200
               THEN [entry_items EXCEPT ![i] = BuildUpdates(entry_items[i], body)]
               ELSE entry_items
        /\ lastReq' = [op |-> "PATCH", status |-> status, id |-> id, body |-> body,
                       user |-> userId,
                       before |-> IF i # 0 THEN entry_items[i] ELSE NoRow]
        /\ served' = served + 1
        /\ UNCHANGED <<timezone, entries, nextId>>

\* The rows POST inserts for the parsed items: ids in order, no override yet.
NewItemRows(items, entryId, firstId) ==
    [k \in 1..Len(items) |->
        [n \in DOMAIN items[k] \cup {"id", "entry_id", "has_override", "override_fields"} |->
            CASE n = "id"              -> firstId + k - 1
              [] n = "entry_id"        -> entryId
              [] n = "has_override"    -> FALSE
              [] n = "override_fields" -> NullList
              [] OTHER                 -> items[k][n]]]

ResolveEntryDate_ServerClock(req, parsedMeal, now, tz) ==
    IF req.override_date # Absent /\ Len(req.override_date[1]) > 0
    THEN [resolved_date |-> req.override_date[1], explicit_date_in_text |-> FALSE]
    ELSE resolveDate(parsedMeal.explicit_date, now, tz)

\* "Resolve the date": override_date > explicit_date from the estimator >
\* client_timestamp (the server clock when the request carries none).
ResolveEntryDate(req, parsedMeal, now, tz) ==
    IF req.override_date # Absent /\ Len(req.override_date[1]) > 0
    THEN [resolved_date |-> req.override_date[1], explicit_date_in_text |-> FALSE]
    ELSE resolveDate(parsedMeal.explicit_date,
                     IF req.client_timestamp # Absent
                     THEN req.client_timestamp[1] ELSE now,
                     tz)

\* The four nutrients whose range validateParsedMeal checks, with the name
\* each has in the message.
CheckedRanges ==
    <<[value |-> "calories", low |-> "calories_low", high |-> "calories_high",
       name |-> "calories"],
      [value |-> "protein_g", low |-> "protein_low", high |-> "protein_high",
       name |-> "protein"],
      [value |-> "carbs_g", low |-> "carbs_low", high |-> "carbs_high",
       name |-> "carbs"],
      [value |-> "fat_g", low |-> "fat_low", high |-> "fat_high", name |-> "fat"]>>

numericFields ==
    <<"calories", "protein_g", "carbs_g", "fat_g", "saturated_fat_g",
      "unsaturated_fat_g", "fiber_g", "sodium_mg", "added_sugar_g">>

\* The messages validateParsedMeal pushes for one item, in order. A message
\* is the item's name, its kind and the nutrient it is about.
ItemErrors(item) ==
    LET ranges == [k \in 1..Len(CheckedRanges) |->
                     LET c == CheckedRanges[k]
                     IN  IF item[c.low] > item[c.value] \/ item[c.value] > item[c.high]
                         THEN <<[food_name |-> item.food_name, kind |-> "range invalid",
                                 field |-> c.name]>>
                         ELSE <<>>]
        fatSum  == item.saturated_fat_g + item.unsaturated_fat_g
        fatDiff == IF fatSum >= item.fat_g THEN fatSum - item.fat_g
                   ELSE item.fat_g - fatSum
        fat     == IF 5 * fatDiff > item.fat_g /\ item.fat_g > 100
                   THEN <<[food_name |-> item.food_name,
                           kind |-> "fat breakdown doesn't match total",
                           field |-> "fat"]>>
                   ELSE <<>>
        negative == [k \in 1..Len(numericFields) |->
                       IF item[numericFields[k]] < 0
                       THEN <<[food_name |-> item.food_name, kind |-> "is negative",
                               field |-> numericFields[k]]>>
                       ELSE <<>>]
    IN  ranges[1] \o ranges[2] \o ranges[3] \o ranges[4] \o fat
        \o negative[1] \o negative[2] \o negative[3] \o negative[4] \o negative[5]
        \o negative[6] \o negative[7] \o negative[8] \o negative[9]

RECURSIVE MealErrors(_, _)
MealErrors(items, n) ==
    IF n = 0 THEN <<>> ELSE MealErrors(items, n - 1) \o ItemErrors(items[n])

\* validateParsedMeal(meal)
validateParsedMeal(meal) ==
    LET errors == MealErrors(meal.items, Len(meal.items))
    IN  [valid |-> Len(errors) = 0, errors |-> errors]

\* The response never carries the warnings.
ValidationWarnings_Dropped(validation) == Absent

\* validation_warnings of the response: the errors, undefined when there are
\* none.
ValidationWarnings(validation) ==
    IF Len(validation.errors) > 0 THEN Given(validation.errors) ELSE Absent

\* POST /api/entries. parsedMeal: what the estimator returns for the text
\* (throws: the call fails); now: the server clock; entryFails, itemsFail:
\* the database reports an error on the insert.
PostEntries(userId, req, parsedMeal, now, entryFails, itemsFail) ==
    LET noText   == req.raw_text = Absent \/ Len(Trim(req.raw_text[1])) = 0
        tz       == IF timezone # "" THEN timezone ELSE "America/New_York"
        resolved == ResolveEntryDate(req, parsedMeal, now, tz)
        status == IF userId = NoUser THEN 401
                  ELSE IF noText /\ ~req.image THEN 400
                  ELSE IF parsedMeal.throws THEN 500
                  ELSE IF req.raw_text = Absent THEN 500   \* raw_text.trim() throws
                  ELSE IF entryFails THEN 500
                  ELSE 201
        stored == status = 201
        entry  == [id |-> nextId, user_id |-> userId,
                   raw_text |-> Trim(req.raw_text[1]), created_at |-> now,
                   resolved_date |-> resolved.resolved_date,
                   explicit_date_in_text |-> resolved.explicit_date_in_text]
        rows   == NewItemRows(parsedMeal.items, nextId, nextId + 1)
    IN  /\ entries' = IF stored THEN Append(entries, entry) ELSE entries
        /\ entry_items' = IF stored /\ ~itemsFail THEN entry_items \o rows
                          ELSE entry_items
        /\ nextId' = IF stored THEN nextId + 1 + Len(parsedMeal.items) ELSE nextId
        /\ lastReq' = [op |-> "POST", status |-> status,
                       id |-> IF stored THEN nextId ELSE 0,
                       items_saved |-> stored /\ ~itemsFail,
                       validation_warnings |->
                           IF stored /\ ~itemsFail
                           THEN ValidationWarnings(validateParsedMeal(parsedMeal))
                           ELSE Absent,
                       meal |-> parsedMeal, user |-> userId, req |-> req,
                       entry_fails |-> entryFails, items_fail |-> itemsFail,
                       explicit_date |-> parsedMeal.explicit_date,
                       client_timestamp |-> req.client_timestamp,
                       now |-> now, timezone |-> timezone,
                       override_date |-> req.override_date]
        /\ served' = served + 1
        /\ UNCHANGED timezone

NoReq == [op |-> "none", status |-> 0, id |-> 0]


-----------------------------------------------------------------------------
(* JavaScript numbers, as the totals add them.                             *)
(* A double that is 0, or at least 2^-7 and below 2^21, is a multiple of   *)
(* 2^-59 with at most 53 significant bits. It is held exactly, as the      *)
(* four base-2^20 digits of that multiple, least digit first.              *)

Limb == 2^20

Zero == <<0, 0, 0, 0>>

\* Bit k of x, counted from 0.
Bit(x, k) == (x[(k \div 20) + 1] \div 2^(k % 20)) % 2

\* Some bit of x below bit k is set.
AnyBelow(x, k) ==
    \/ \E i \in 1..(k \div 20) : x[i] # 0
    \/ x[(k \div 20) + 1] % 2^(k % 20) # 0

\* x with the bits below bit k cleared.
ClearBelow(x, k) ==
    LET Digit(i) == IF i - 1 < k \div 20 THEN 0
                    ELSE IF i - 1 = k \div 20 THEN x[i] - (x[i] % 2^(k % 20))
                    ELSE x[i]
    IN  <<Digit(1), Digit(2), Digit(3), Digit(4)>>

PowerOfTwo(k) ==
    LET Digit(i) == IF i - 1 = k \div 20 THEN 2^(k % 20) ELSE 0
    IN  <<Digit(1), Digit(2), Digit(3), Digit(4)>>

\* The number of significant bits of x.
BitLength(x) ==
    IF x = Zero THEN 0
    ELSE LET i == CHOOSE j \in 1..4 : x[j] # 0 /\ \A h \in (j + 1)..4 : x[h] = 0
             b == CHOOSE n \in 1..20 : 2^(n - 1) <= x[i] /\ x[i] < 2^n
         IN  20 * (i - 1) + b

\* x + y, exactly.
Add(x, y) ==
    LET s1 == x[1] + y[1]
        s2 == x[2] + y[2] + s1 \div Limb
        s3 == x[3] + y[3] + s2 \div Limb
        s4 == x[4] + y[4] + s3 \div Limb
    IN  <<s1 % Limb, s2 % Limb, s3 % Limb, s4>>

\* The double nearest to x + f, ties to even, where f < 1 is a fraction of
\* the last digit's unit known only as "zero", "below", "half" or "above"
\* (one half).
RoundToDouble(x, f) ==
    LET d  == BitLength(x) - 53
        up == IF d = 0
              THEN f = "above" \/ (f = "half" /\ Bit(x, 0) = 1)
              ELSE /\ Bit(x, d - 1) = 1
                   /\ AnyBelow(x, d - 1) \/ f # "zero" \/ Bit(x, d) = 1
    IN  IF d < 0 THEN x
        ELSE IF up THEN Add(ClearBelow(x, d), PowerOfTwo(d))
        ELSE ClearBelow(x, d)

\* The number that a decimal of n hundredths reads as: the double nearest
\* to n / 100.
ToNumber(n) ==
    LET c4 == n \div 2
        c3 == (c4 % 100) * Limb + (n % 2) * 2^19
        c2 == (c3 % 100) * Limb
        c1 == (c2 % 100) * Limb
        r  == c1 % 100
    IN  RoundToDouble(<<c1 \div 100, c2 \div 100, c3 \div 100, c4 \div 100>>,
                      IF r = 0 THEN "zero" ELSE IF r < 50 THEN "below"
                      ELSE IF r = 50 THEN "half" ELSE "above")

\* a + b of two numbers.
Plus(a, b) == RoundToDouble(Add(a, b), "zero")

-----------------------------------------------------------------------------
(* src/app/page.tsx: the dashboard's totals *)

\* GET /api/entries?date=: the user's entries of that date, newest first,
\* each with its items.
GetEntries(userId, date) ==
    LET RECURSIVE Rows(_)
        Rows(i) ==
            IF i = 0 THEN <<>>
            ELSE IF entries[i].user_id = userId /\ entries[i].resolved_date = date
                 THEN <<[id |-> entries[i].id,
                         entry_items |->
                             SelectSeq(entry_items,
                                       LAMBDA r : r.entry_id = entries[i].id)]>>
                      \o Rows(i - 1)
                 ELSE Rows(i - 1)
    IN  Rows(Len(entries))

\* The totals the dashboard shows, and the item columns each one sums;
\* optional: the column is read as "x || 0".
HomeTotals ==
    {[key |-> "calories", value |-> "calories", low |-> "calories_low",
      high |-> "calories_high", optional |-> FALSE],
     [key |-> "protein", value |-> "protein_g", low |-> "protein_low",
      high |-> "protein_high", optional |-> FALSE],
     [key |-> "carbs", value |-> "carbs_g", low |-> "carbs_low",
      high |-> "carbs_high", optional |-> FALSE],
     [key |-> "fat", value |-> "fat_g", low |-> "fat_low",
      high |-> "fat_high", optional |-> FALSE],
     [key |-> "saturatedFat", value |-> "saturated_fat_g",
      low |-> "saturated_fat_low", high |-> "saturated_fat_high",
      optional |-> TRUE],
     [key |-> "fiber", value |-> "fiber_g", low |-> "fiber_low",
      high |-> "fiber_high", optional |-> TRUE],
     [key |-> "addedSugar", value |-> "added_sugar_g", low |-> "added_sugar_low",
      high |-> "added_sugar_high", optional |-> TRUE],
     [key |-> "sodium", value |-> "sodium_mg", low |-> "sodium_low",
      high |-> "sodium_high", optional |-> TRUE]}

\* The totals of the test suite's aggregateItems.
HelperTotals == {t \in HomeTotals : t.key \in {"calories", "protein", "carbs", "fat"}}

Keys(table) == {t.key : t \in table}

ColumnsOf(table, k) == CHOOSE t \in table : t.key = k

\* x || 0
OrZero(x) == IF x = Zero THEN Zero ELSE x

\* item.column, or item.column || 0
Read(item, column, optional) ==
    IF optional THEN OrZero(item[column]) ELSE item[column]

ZeroTotals(table) ==
    [k \in Keys(table) |-> [value |-> Zero, low |-> Zero, high |-> Zero]]

\* "=" written for "+=" on the low bound.
AddItem_AssignLow(table, acc, item) ==
    [k \in Keys(table) |->
        LET c == ColumnsOf(table, k)
            a == acc[k]
        IN  [value |-> Plus(a.value, Read(item, c.value, c.optional)),
             low   |-> Read(item, c.low, c.optional),
             high  |-> Plus(a.high, Read(item, c.high, c.optional))]]

\* The point value added to the low bound.
AddItem_LowFromValue(table, acc, item) ==
    [k \in Keys(table) |->
        LET c == ColumnsOf(table, k)
            a == acc[k]
        IN  [value |-> Plus(a.value, Read(item, c.value, c.optional)),
             low   |-> Plus(a.low, Read(item, c.value, c.optional)),
             high  |-> Plus(a.high, Read(item, c.high, c.optional))]]

\* The body of the reduce callback for one item: acc.x.value += item.x, ...
AddItem(table, acc, item) ==
    [k \in Keys(table) |->
        LET c == ColumnsOf(table, k)
            a == acc[k]
        IN  [value |-> Plus(a.value, Read(item, c.value, c.optional)),
             low   |-> Plus(a.low, Read(item, c.low, c.optional)),
             high  |-> Plus(a.high, Read(item, c.high, c.optional))]]

RECURSIVE ForEachItem(_, _, _)
ForEachItem(table, acc, items) ==
    IF items = <<>> THEN acc
    ELSE ForEachItem(table, AddItem(table, acc, Head(items)), Tail(items))

RECURSIVE ReduceEntries(_, _)
ReduceEntries(acc, es) ==
    IF es = <<>> THEN acc
    ELSE ReduceEntries(ForEachItem(HomeTotals, acc, Head(es).entry_items), Tail(es))

\* const totals = entries.reduce(...)
Totals(es) == ReduceEntries(ZeroTotals(HomeTotals), es)

\* aggregateItems(items) of the aggregation tests
aggregateItems(items) == ForEachItem(HelperTotals, ZeroTotals(HelperTotals), items)

NoTotals == [done |-> FALSE]


-----------------------------------------------------------------------------
(* The application: requests against the store *)

MaxRequests == 3

MaxEntryRequests == 2

\* A patch body with the given fields.
Body(fields) == [f \in DOMAIN NoBody |->
                    IF f \in DOMAIN fields THEN Given(fields[f]) ELSE Absent]

\* The override requests tried: every numeric field alone, at a valid, a
\* boundary and an invalid value, and bodies with several fields.
Bodies ==
    {Body([calories |-> v]) : v \in {10000, 20000, 500, 300, 0, -100}}
    \cup {Body([protein_g |-> v]) : v \in {0, 500, -100}}
    \cup {Body([carbs_g |-> v]) : v \in {3000, 0, -100}}
    \cup {Body([fat_g |-> v]) : v \in {400, 0, -100}}
    \cup {Body([fiber_g |-> v]) : v \in {800, 0, -100}}
    \cup {Body([food_name |-> "renamed"]),
          Body([calories |-> 10000, protein_g |-> 500]),
          Body([calories |-> 300, protein_g |-> 500]),
          Body([fat_g |-> 400, fiber_g |-> 800]),
          Body([calories |-> 10000, fat_g |-> -100]),
          Body([food_name |-> "renamed", calories |-> 10000, protein_g |-> 500,
                carbs_g |-> 3000, fat_g |-> 400, fiber_g |-> 800]),
          NoBody}

PlainRequest ==
    [raw_text |-> Given("2 eggs"), image |-> FALSE,
     client_timestamp |-> Given(Utc(2026, 1, 30, 4, 58)), override_date |-> Absent]

Meal(items, explicit) == [throws |-> FALSE, items |-> items, explicit_date |-> explicit]

Meals ==
    {Meal(<<Toast>>, NullStr), Meal(<<Coffee>>, NullStr), Meal(<<Eggs>>, NullStr),
     Meal(<<>>, NullStr)}

IdleDate == call = NoCall /\ ret = NoRet

IdleHome == homeEntries = <<>> /\ totals = NoTotals

\* Who asks, and whether the database fails: one failure at a time.
PatchCalls ==
    {<<"u1", body, FALSE>> : body \in Bodies}
    \cup {<<NoUser, Body([calories |-> 10000]), FALSE>>,
          <<"u1", Body([calories |-> 10000]), TRUE>>}

PostCalls ==
    {<<"u1", meal, FALSE>> : meal \in Meals}
    \cup {<<NoUser, Meal(<<Toast>>, NullStr), FALSE>>,
          <<"u1", Meal(<<Toast>>, NullStr), TRUE>>}

ItemIds == {entry_items[i].id : i \in 1..Len(entry_items)}

Init ==
    /\ timezone \in {"", "Asia/Tokyo"}
    /\ entries = <<>> /\ entry_items = <<>> /\ nextId = 1
    /\ lastReq = NoReq /\ served = 0
    /\ IdleDate /\ IdleHome /\ IdleRest

Post ==
    /\ served < MaxRequests
    /\ \E c \in PostCalls :
          PostEntries(c[1], PlainRequest, c[2], Utc(2026, 1, 30, 5, 3), c[3], FALSE)
    /\ UNCHANGED <<dateVars, homeVars, restVars>>

\* An override of a stored item, or of an id that names no item.
Patch ==
    /\ served < MaxRequests
    /\ \E c \in PatchCalls, id \in ItemIds \cup {nextId} :
          PatchItem(c[1], id, c[2], c[3])
    /\ UNCHANGED <<dateVars, homeVars, restVars>>

Next == Post \/ Patch

Spec == Init /\ [][Next]_vars

-----------------------------------------------------------------------------
(* The application, with every input of the entry's date *)

DatedRequest(ts, override) ==
    [raw_text |-> Given(" 2 eggs "), image |-> FALSE,
     client_timestamp |-> ts, override_date |-> override]

\* Requests that differ in what decides the date, and requests that differ
\* in text and image.
EntryRequests ==
    {DatedRequest(ts, o) :
        ts \in {Absent, Given(Utc(2026, 1, 30, 4, 58)), Given(Utc(2026, 1, 29, 14, 58))},
        o  \in {Absent, Given(<<>>),
                Given(FormatFields([year |-> 2026, month |-> 1, day |-> 28]))}}
    \cup {[DatedRequest(Absent, Absent) EXCEPT !.raw_text = t, !.image = i] :
             t \in {Absent, Given("  ")}, i \in BOOLEAN}

EntryMeals ==
    {Meal(<<Toast>>, e) :
        e \in {NullStr, Str(<<>>),
               Str(FormatFields([year |-> 2026, month |-> 1, day |-> 15])),
               Str(FormatFields([year |-> 2026, month |-> 2, day |-> 30]))}}
    \cup {Meal(<<>>, NullStr), [Meal(<<>>, NullStr) EXCEPT !.throws = TRUE]}

\* <<session, entry insert fails, items insert fails>>
EntryOutcomes ==
    {<<"u1", FALSE, FALSE>>, <<"u1", TRUE, FALSE>>, <<"u1", FALSE, TRUE>>,
     <<NoUser, FALSE, FALSE>>}

InitEntries ==
    /\ timezone \in {"", "Asia/Tokyo"}
    /\ entries = <<>> /\ entry_items = <<>> /\ nextId = 1
    /\ lastReq = NoReq /\ served = 0
    /\ IdleDate /\ IdleHome /\ IdleRest

PostEntry ==
    /\ served < MaxEntryRequests
    /\ \E req \in EntryRequests, meal \in EntryMeals, o \in EntryOutcomes :
          PostEntries(o[1], req, meal, Utc(2026, 1, 30, 5, 3), o[2], o[3])
    /\ UNCHANGED <<dateVars, homeVars, restVars>>

NextEntries == PostEntry

SpecEntries == InitEntries /\ [][NextEntries]_vars

-----------------------------------------------------------------------------
(* Properties of entry creation *)

Created == lastReq.op = "POST" /\ lastReq.status = 201

CreatedEntry == entries[RowIndex(entries, lastReq.id)]

StoredDate(e) ==
    [resolved_date |-> e.resolved_date,
     explicit_date_in_text |-> e.explicit_date_in_text]

\* The submission instant of the last request: the client's timestamp, the
\* server clock when the request carries none.
SubmittedAt ==
    IF lastReq.client_timestamp # Absent THEN lastReq.client_timestamp[1]
    ELSE lastReq.now

\* The user's time zone, the default when the settings have none.
UserZone == IF lastReq.timezone # "" THEN lastReq.timezone ELSE DEFAULT_TIMEZONE

OverrideDateGiven ==
    lastReq.override_date # Absent /\ lastReq.override_date[1] # <<>>

-----------------------------------------------------------------------------
(* Properties of the manual override *)

Overridden == lastReq.op = "PATCH" /\ lastReq.status = 200

Before == lastReq.before

After == entry_items[RowIndex(entry_items, lastReq.id)]

Changed(f) == Differs(lastReq.body, Before, f)

Abs(x) == IF x < 0 THEN -x ELSE x

\* x is a multiple of step nearest to n / d (d > 0).
Nearest(x, n, d, step) == x % step = 0 /\ 2 * Abs(x * d - n) <= step * d

\* The bound columns of a point-value column, and the step it is rounded to.
LowOf(f) ==
    CASE f = "calories" -> "calories_low" [] f = "protein_g" -> "protein_low"
      [] f = "carbs_g" -> "carbs_low" [] f = "fat_g" -> "fat_low"
      [] f = "fiber_g" -> "fiber_low"

HighOf(f) ==
    CASE f = "calories" -> "calories_high" [] f = "protein_g" -> "protein_high"
      [] f = "carbs_g" -> "carbs_high" [] f = "fat_g" -> "fat_high"
      [] f = "fiber_g" -> "fiber_high"

StepOf(f) == IF f = "calories" THEN 100 ELSE 10

\* Column c of the row was rescaled by new / old of column f, rounded.
Rescaled(c, f) ==
    IF Before[f] > 0
    THEN Nearest(After[c], Before[c] * Val(lastReq.body, f), Before[f], StepOf(f))
    ELSE Nearest(After[c], Before[c], 1, StepOf(f))

\* C8, as claimed: an override of calories, protein, carbs or fat from a
\* positive value scales both bounds by new / old (rounded to an integer for
\* calories, to a tenth for the macros); from 0 it leaves the bounds as they
\* were.
C8_BoundsScaledOrKept ==
    Overridden =>
        \A f \in {"calories", "protein_g", "carbs_g", "fat_g"} :
            Changed(f) =>
                IF Before[f] > 0
                THEN Rescaled(LowOf(f), f) /\ Rescaled(HighOf(f), f)
                ELSE /\ After[LowOf(f)] = Before[LowOf(f)]
                     /\ After[HighOf(f)] = Before[HighOf(f)]

\* C8, amended: from a positive value the bounds are scaled by new / old and
\* rounded; from 0 the ratio is 1 and the bounds are only rounded (to an
\* integer for calories, to a tenth for the macros). 200 -> 100 turns
\* 180 / 220 into 90 / 110.
C8_BoundsScaled ==
    Overridden =>
        /\ \A f \in {"calories", "protein_g", "carbs_g", "fat_g"} :
              Changed(f) =>
                  /\ After[f] = Val(lastReq.body, f)
                  /\ Rescaled(LowOf(f), f) /\ Rescaled(HighOf(f), f)
        /\ (Changed("calories") /\ Before.calories = 20000
               /\ Before.calories_low = 18000 /\ Before.calories_high = 22000
               /\ Val(lastReq.body, "calories") = 10000)
           => After.calories_low = 9000 /\ After.calories_high = 11000

\* Calories went from 200 to 100 on an item with bounds 180 / 220.
C8_Witness ==
    /\ Overridden
    /\ Changed("calories")
    /\ Before.calories = 20000 /\ Before.calories_low = 18000
    /\ Before.calories_high = 22000
    /\ After.calories = 10000 /\ After.calories_low = 9000
    /\ After.calories_high = 11000

\* C9: every numeric field of the patch that differs from the current value,
\* fiber included, replaces the point value and rescales the field's own
\* bounds by new / old.
C9_EveryFieldRescaled ==
    Overridden =>
        \A f \in {"calories", "protein_g", "carbs_g", "fat_g", "fiber_g"} :
            Changed(f) =>
                /\ After[f] = Val(lastReq.body, f)
                /\ Rescaled(LowOf(f), f) /\ Rescaled(HighOf(f), f)

\* C10: an override of total fat rescales the saturated and the unsaturated
\* fat estimates by the ratio applied to the bounds of total fat (rounded to
\* a tenth).
C10_FatBreakdownScaled ==
    (Overridden /\ Changed("fat_g")) =>
        /\ Rescaled("saturated_fat_g", "fat_g")
        /\ Rescaled("unsaturated_fat_g", "fat_g")
        /\ Rescaled("fat_low", "fat_g") /\ Rescaled("fat_high", "fat_g")

\* Total fat was halved, and so were both parts of the breakdown.
C10_Witness ==
    /\ Overridden /\ Changed("fat_g")
    /\ Before.fat_g = 800 /\ After.fat_g = 400
    /\ Before.saturated_fat_g = 300 /\ After.saturated_fat_g = 150
    /\ Before.unsaturated_fat_g = 500 /\ After.unsaturated_fat_g = 250

-----------------------------------------------------------------------------
(* The dashboard: the entries of the selected day and their totals *)

MaxHomeItems == 3

\* An item of the response as the page holds it: every quantity a number.
ParseItem(item) ==
    [c \in DOMAIN item |->
        IF c \in NutrientColumns THEN ToNumber(item[c]) ELSE item[c]]

\* The lists of at most n sample items.
RECURSIVE ItemLists(_)
ItemLists(n) ==
    IF n = 0 THEN {<<>>}
    ELSE LET shorter == ItemLists(n - 1)
         IN  shorter \cup {Append(l, ParseItem(i)) :
                              l \in {x \in shorter : Len(x) = n - 1},
                              i \in SampleItems}

\* The ways of cutting a list of items into consecutive lists, none empty.
RECURSIVE Splits(_)
Splits(items) ==
    IF items = <<>> THEN {<<>>}
    ELSE UNION {{<<SubSeq(items, 1, i)>> \o rest :
                    rest \in Splits(SubSeq(items, i + 1, Len(items)))} :
                i \in 1..Len(items)}

\* The entries of a day as GET /api/entries returns them, each with its
\* items nested.
Nested(lists) ==
    [i \in 1..Len(lists) |-> [id |-> i, entry_items |-> lists[i]]]

\* The items as the entries of a day; an entry whose items were not saved
\* has none.
Groupings(items) ==
    {Nested(lists) : lists \in Splits(items)}
    \cup (IF items = <<>> THEN {Nested(<<items>>)} ELSE {})

\* All the items of the entries, in the order the reduce visits them.
RECURSIVE AllItems(_)
AllItems(es) ==
    IF es = <<>> THEN <<>> ELSE Head(es).entry_items \o AllItems(Tail(es))

\* What a render computes from the entries.
Rendered(es) ==
    [done |-> TRUE, totals |-> Totals(es), helper |-> aggregateItems(AllItems(es))]

IdleApp ==
    /\ timezone = "" /\ entries = <<>> /\ entry_items = <<>> /\ nextId = 1
    /\ lastReq = NoReq /\ served = 0

InitHome ==
    /\ homeEntries \in UNION {Groupings(items) : items \in ItemLists(MaxHomeItems)}
    /\ totals = NoTotals
    /\ IdleDate /\ IdleApp /\ IdleRest

\* The first render after the entries were fetched.
Render ==
    /\ ~totals.done
    /\ totals' = Rendered(homeEntries)
    /\ UNCHANGED <<homeEntries, dateVars, appVars, restVars>>

\* handleEntryDeleted(id), and the render that the new state causes.
EntryDeleted ==
    /\ totals.done
    /\ \E i \in 1..Len(homeEntries) :
          LET id == homeEntries[i].id
          IN  /\ homeEntries' = SelectSeq(homeEntries, LAMBDA e : e.id # id)
              /\ totals' = Rendered(homeEntries')
    /\ UNCHANGED <<dateVars, appVars, restVars>>

NextHome == Render \/ EntryDeleted

SpecHome == InitHome /\ [][NextHome]_vars

-----------------------------------------------------------------------------
(* Properties of the totals *)

\* The columns of the value, the low and the high of each nutrient shown.
Summed ==
    [calories     |-> <<"calories", "calories_low", "calories_high">>,
     protein      |-> <<"protein_g", "protein_low", "protein_high">>,
     carbs        |-> <<"carbs_g", "carbs_low", "carbs_high">>,
     fat          |-> <<"fat_g", "fat_low", "fat_high">>,
     saturatedFat |-> <<"saturated_fat_g", "saturated_fat_low", "saturated_fat_high">>,
     fiber        |-> <<"fiber_g", "fiber_low", "fiber_high">>,
     addedSugar   |-> <<"added_sugar_g", "added_sugar_low", "added_sugar_high">>,
     sodium       |-> <<"sodium_mg", "sodium_low", "sodium_high">>]

Part(estimate, b) ==
    CASE b = 1 -> estimate.value [] b = 2 -> estimate.low [] b = 3 -> estimate.high

\* The sum of one column over the items, in the numbers' own addition, from
\* the first item to the last.
RECURSIVE SumTo(_, _, _)
SumTo(items, column, n) ==
    IF n = 0 THEN Zero
    ELSE Plus(SumTo(items, column, n - 1), items[n][column])

Sum(items, column) == SumTo(items, column, Len(items))

\* The sum of one column without any rounding.
RECURSIVE ExactTo(_, _, _)
ExactTo(items, column, n) ==
    IF n = 0 THEN Zero
    ELSE Add(ExactTo(items, column, n - 1), items[n][column])

\* Every quantity of the column is a whole number: a multiple of 2^59 units.
Whole(items, column) ==
    \A i \in 1..Len(items) :
        LET x == items[i][column]
        IN  x[1] = 0 /\ x[2] = 0 /\ x[3] % 2^19 = 0

PlainSums(keys, items) ==
    [k \in keys |-> [value |-> Sum(items, Summed[k][1]),
                     low   |-> Sum(items, Summed[k][2]),
                     high  |-> Sum(items, Summed[k][3])]]

Permuted(items) ==
    {[i \in 1..Len(items) |-> items[p[i]]] :
        p \in {q \in [1..Len(items) -> 1..Len(items)] :
                  \A i, j \in 1..Len(items) : q[i] = q[j] => i = j}}

Leq(x, y) ==
    \/ x = y
    \/ \E i \in 1..4 : x[i] < y[i] /\ \A h \in (i + 1)..4 : x[h] = y[h]

\* x - y for y <= x, exactly.
Minus(x, y) ==
    LET d1 == x[1] - y[1]
        d2 == x[2] - y[2] - (IF d1 < 0 THEN 1 ELSE 0)
        d3 == x[3] - y[3] - (IF d2 < 0 THEN 1 ELSE 0)
        d4 == x[4] - y[4] - (IF d3 < 0 THEN 1 ELSE 0)
    IN  <<d1 % Limb, d2 % Limb, d3 % Limb, d4>>

\* n * x for a small n, exactly.
Times(n, x) ==
    LET p1 == n * x[1]
        p2 == n * x[2] + p1 \div Limb
        p3 == n * x[3] + p2 \div Limb
        p4 == n * x[4] + p3 \div Limb
    IN  <<p1 % Limb, p2 % Limb, p3 % Limb, p4>>

\* x / 2^52, rounded down.
Shift52(x) == <<x[3] \div 2^12 + (x[4] % 2^12) * 2^8, x[4] \div 2^12, 0, 0>>

\* Two totals of n items differ by no more than n * 2^-52 of the larger.
Close(a, b, n) ==
    IF Leq(a, b) THEN Leq(Minus(b, a), Shift52(Times(n, b)))
    ELSE Leq(Minus(a, b), Shift52(Times(n, a)))

\* The two sets of totals are identical, or differ only where the column's
\* quantities are not all whole numbers, and are close there.
Agree(t, u, items) ==
    \/ t = u
    \/ \A k \in DOMAIN t, b \in 1..3 :
          \/ Part(t[k], b) = Part(u[k], b)
          \/ /\ ~Whole(items, Summed[k][b])
             /\ Close(Part(t[k], b), Part(u[k], b), Len(items))

-----------------------------------------------------------------------------
(* Properties of the override's validation *)

\* The patch carries calories below 5, or a negative protein, carbs, fat or
\* fiber.
Invalid(body) ==
    \/ Has(body, "calories") /\ Val(body, "calories") < 500
    \/ \E f \in {"protein_g", "carbs_g", "fat_g", "fiber_g"} :
          Has(body, f) /\ Val(body, f) < 0

\* C11: a PATCH of a signed-in user whose body is invalid answers 400 and
\* leaves every entry and item as it was, whatever else the body carries; a
\* body that is not invalid (calories of exactly 5, a zero macro) is never
\* answered 400.
C11_InvalidPatchRejected ==
    [][(lastReq'.op = "PATCH" /\ lastReq'.user # NoUser) =>
          IF Invalid(lastReq'.body)
          THEN /\ lastReq'.status = 400
               /\ entry_items' = entry_items /\ entries' = entries
          ELSE lastReq'.status # 400]_vars

\* A patch with valid calories and a negative fat was refused for an item of
\* the user that an earlier patch had set to exactly 5 kcal.
C11_Witness ==
    /\ lastReq.op = "PATCH" /\ lastReq.status = 400
    /\ Has(lastReq.body, "calories") /\ Val(lastReq.body, "calories") = 10000
    /\ Has(lastReq.body, "fat_g") /\ Val(lastReq.body, "fat_g") < 0
    /\ verifyItemOwnership(lastReq.id, lastReq.user)
    /\ After.calories = 500
    /\ "calories" \in Range(After.override_fields.list)

-----------------------------------------------------------------------------
(* Properties of the record of overridden fields *)

NoDuplicate(list) == \A i, j \in 1..Len(list) : list[i] = list[j] => i = j

\* The fields recorded for the item, none while override_fields is NULL.
Recorded(row) == Range(row.override_fields.list)

\* C12: in every step, the override_fields of every item names no field
\* twice, keeps every field it named before the step, and after a successful
\* override names every field that the patch changed.
C12_OverrideFieldsOnce ==
    [][/\ \A i \in 1..Len(entry_items') :
             /\ NoDuplicate(entry_items'[i].override_fields.list)
             /\ \A j \in 1..Len(entry_items) :
                   entry_items[j].id = entry_items'[i].id =>
                       Recorded(entry_items[j]) \subseteq Recorded(entry_items'[i])
       /\ (lastReq'.op = "PATCH" /\ lastReq'.status = 200) =>
             LET row == entry_items'[RowIndex(entry_items', lastReq'.id)]
             IN  \A f \in DOMAIN NoBody :
                    Differs(lastReq'.body, lastReq'.before, f) => f \in Recorded(row)
      ]_vars

\* Calories were overridden a second time, after protein: the list still
\* names calories once, and protein.
C12_Witness ==
    /\ Overridden /\ Changed("calories")
    /\ "calories" \in Recorded(Before)
    /\ "protein_g" \in Recorded(Before)
    /\ After.override_fields.list = Before.override_fields.list
    /\ After.calories # Before.calories

-----------------------------------------------------------------------------
(* Overrides that run at the same time *)

\* The columns that a block of PATCH puts into the updates object.
ColumnsOfField(f) ==
    CASE f = "food_name" -> {"food_name"}
      [] f = "calories"  -> {"calories", "calories_low", "calories_high"}
      [] f = "protein_g" -> {"protein_g", "protein_low", "protein_high"}
      [] f = "carbs_g"   -> {"carbs_g", "carbs_low", "carbs_high"}
      [] f = "fat_g"     -> {"fat_g", "fat_low", "fat_high", "saturated_fat_g",
                             "unsaturated_fat_g"}
      [] f = "fiber_g"   -> {"fiber_g"}

\* The keys of the updates object built from the row as read.
UpdatedColumns(current, body) ==
    {"has_override", "override_fields"}
    \cup UNION {ColumnsOfField(f) : f \in {g \in DOMAIN NoBody : Differs(body, current, g)}}

\* .update(updates).eq('id', id): the columns of updates replace those of the
\* row as stored at the time of the update; the others stay.
ApplyUpdates(stored, current, body) ==
    LET updates == BuildUpdates(current, body)
        columns == UpdatedColumns(current, body)
    IN  [k \in DOMAIN stored |-> IF k \in columns THEN updates[k] ELSE stored[k]]

\* PATCH up to the read of the current row: the session, the validation, the
\* ownership test and the select.
PatchRead(h, userId, id, body) ==
    LET i      == RowIndex(entry_items, id)
        status == IF userId = NoUser THEN 401
                  ELSE IF ValidationError(body) # "" THEN 400
                  ELSE IF ~verifyItemOwnership(id, userId) THEN 404
                  ELSE 0
        began  == Cardinality({g \in Handlers : inflight[g].order # 0})
    IN  /\ inflight[h].pc = "idle"
        /\ inflight' = [inflight EXCEPT ![h] =
               IF status # 0
               THEN [pc |-> "done", order |-> 0, status |-> status]
               ELSE [pc |-> "read", order |-> began + 1, status |-> 0,
                     user |-> userId, id |-> id, body |-> body,
                     current |-> entry_items[i]]]
        /\ UNCHANGED <<dateVars, appVars, homeVars, daily_activity, posting, lastActivity>>

\* PATCH from the update on, with the updates built from the row as read.
PatchWrite(h, updateFails) ==
    LET p == inflight[h]
        i == RowIndex(entry_items, p.id)
    IN  /\ p.pc = "read"
        /\ entry_items' =
               IF updateFails THEN entry_items
               ELSE [entry_items EXCEPT ![i] = ApplyUpdates(@, p.current, p.body)]
        /\ inflight' = [inflight EXCEPT ![h].pc = "done",
                                        ![h].status = IF updateFails THEN 500 ELSE 200]
        /\ UNCHANGED <<dateVars, timezone, entries, nextId, lastReq, served, homeVars,
                       daily_activity, posting, lastActivity>>

MaxRaceEntries == 1

RaceBodies ==
    {Body([calories |-> 10000]), Body([calories |-> 500]), Body([protein_g |-> 500]),
     Body([fat_g |-> 400]), Body([fiber_g |-> 800]), Body([food_name |-> "renamed"]),
     Body([calories |-> 10000, protein_g |-> 500]), Body([calories |-> -100]), NoBody}

RaceCalls ==
    {<<"u1", body>> : body \in RaceBodies} \cup {<<NoUser, Body([calories |-> 10000])>>}

RacePost ==
    /\ served < MaxRaceEntries
    /\ \E c \in PostCalls :
          PostEntries(c[1], PlainRequest, c[2], Utc(2026, 1, 30, 5, 3), c[3], FALSE)
    /\ UNCHANGED <<dateVars, homeVars, restVars>>

RaceRead ==
    \E h \in Handlers, c \in RaceCalls, id \in ItemIds \cup {nextId} :
        PatchRead(h, c[1], id, c[2])

RaceWrite == \E h \in Handlers, updateFails \in BOOLEAN : PatchWrite(h, updateFails)

NextRace == RacePost \/ RaceRead \/ RaceWrite

SpecRace == Init /\ [][NextRace]_vars

-----------------------------------------------------------------------------
(* Properties of overrides that run at the same time *)

\* Both handlers updated the same item.
BothDone ==
    /\ \A h \in Handlers : inflight[h].pc = "done" /\ inflight[h].status = 200
    /\ inflight[1].id = inflight[2].id

\* The handler that read the item first: it read the row as it was before
\* either override.
FirstReader == CHOOSE h \in Handlers : inflight[h].order = 1

Serial(row, first, second) == BuildUpdates(BuildUpdates(row, first), second)

\* C13: once two overrides of the same item have both completed, the stored
\* item, override_fields included, is what the two patches give when applied
\* one after the other to the item as it was, in one of the two orders.
C13_RaceSerialized ==
    BothDone =>
        LET original == inflight[FirstReader].current
            stored   == entry_items[RowIndex(entry_items, inflight[1].id)]
        IN  stored \in {Serial(original, inflight[1].body, inflight[2].body),
                        Serial(original, inflight[2].body, inflight[1].body)}

-----------------------------------------------------------------------------
(* The energy calculator *)

(* Weights and heights are DECIMAL(5,2): integers of hundredths. An energy
   before rounding is an integer of 1/10000 kcal, which holds 10 * weight_kg
   and 6.25 * height_cm exactly. *)

\* Math.round(n / d) for d > 0: the nearest integer, a tie going up.
MathRound(n, d) == (2 * n + d) \div (2 * d)

\* The Mifflin-St Jeor sum as calculateBMR, the dashboard and the trends
\* endpoint write it, in 1/10000 kcal.
MifflinStJeor(weightKg, heightCm, ageYears, sex) ==
    IF sex = "male"
    THEN 1000 * weightKg + 625 * heightCm - 50000 * ageYears + 50000
    ELSE 1000 * weightKg + 625 * heightCm - 50000 * ageYears - 1610000

\* The bounds scaled from the rounded point estimate.
calculateBMR_RoundFirst(weightKg, heightCm, ageYears, sex) ==
    LET bmr == MathRound(MifflinStJeor(weightKg, heightCm, ageYears, sex), 10000)
    IN  [bmr      |-> bmr,
         bmr_low  |-> MathRound(9 * bmr, 10),
         bmr_high |-> MathRound(11 * bmr, 10)]

\* calculateBMR(weightKg, heightCm, ageYears, sex), BMR_UNCERTAINTY = 0.10
calculateBMR(weightKg, heightCm, ageYears, sex) ==
    LET bmr == MifflinStJeor(weightKg, heightCm, ageYears, sex)
    IN  [bmr      |-> MathRound(bmr, 10000),
         bmr_low  |-> MathRound(9 * bmr, 100000),
         bmr_high |-> MathRound(11 * bmr, 100000)]

\* calculate_bmr of the schema: DECIMAL arithmetic, not rounded. The result
\* in 1/10000 kcal.
calculate_bmr(weight_kg, height_cm, age_years, sex) ==
    IF sex = "male"
    THEN (10 * weight_kg * 100) + (625 * height_cm) - (5 * age_years * 10000) + 5 * 10000
    ELSE (10 * weight_kg * 100) + (625 * height_cm) - (5 * age_years * 10000) - 161 * 10000

\* The number that a multiplier of n thousandths is: the double nearest to
\* n / 1000.
Multiplier(n) ==
    LET c4 == n \div 2
        c3 == (c4 % 1000) * Limb + (n % 2) * 2^19
        c2 == (c3 % 1000) * Limb
        c1 == (c2 % 1000) * Limb
        r  == c1 % 1000
    IN  RoundToDouble(<<c1 \div 1000, c2 \div 1000, c3 \div 1000, c4 \div 1000>>,
                      IF r = 0 THEN "zero" ELSE IF r < 500 THEN "below"
                      ELSE IF r = 500 THEN "half" ELSE "above")

\* n * x for an integer 0 <= n < 2^13, exactly: each digit of x in two halves
\* of ten bits.
TimesInt(n, x) ==
    LET Low(i)   == n * (x[i] % 2^10) + ((n * (x[i] \div 2^10)) % 2^10) * 2^10
        Carry(i) == (n * (x[i] \div 2^10)) \div 2^10
        s1 == Low(1)
        s2 == Low(2) + Carry(1) + s1 \div Limb
        s3 == Low(3) + Carry(2) + s2 \div Limb
        s4 == Low(4) + Carry(3) + s3 \div Limb
    IN  <<s1 % Limb, s2 % Limb, s3 % Limb, s4>>

\* Math.round(n * m) for an integer n >= 0 and a number m: the product is
\* the double nearest to it, and Math.round adds one half and rounds down.
RoundProduct(n, m) ==
    LET y == Add(RoundToDouble(TimesInt(n, m), "zero"), PowerOfTwo(58))
    IN  y[3] \div 2^19 + 2 * y[4]

\* DEFAULT_ACTIVITY_LEVELS, the multipliers in thousandths.
DEFAULT_ACTIVITY_LEVELS ==
    <<[id |-> 1, multiplier |-> 1200, multiplier_low |-> 1150, multiplier_high |-> 1250],
      [id |-> 2, multiplier |-> 1375, multiplier_low |-> 1300, multiplier_high |-> 1450],
      [id |-> 3, multiplier |-> 1550, multiplier_low |-> 1500, multiplier_high |-> 1600],
      [id |-> 4, multiplier |-> 1725, multiplier_low |-> 1650, multiplier_high |-> 1800],
      [id |-> 5, multiplier |-> 1900, multiplier_low |-> 1800, multiplier_high |-> 2000]>>

\* calculateTDEE(bmr, bmrLow, bmrHigh, activityMultiplier, ..., calorieDeficit)
\* for the integers that calculateBMR returns. A difference of integers is
\* exact, and Math.round leaves an integer as it is.
calculateTDEE(bmr, bmrLow, bmrHigh, activityMultiplier, activityMultiplierLow, activityMultiplierHigh, calorieDeficit) ==
    LET tdee     == RoundProduct(bmr, Multiplier(activityMultiplier))
        tdeeLow  == RoundProduct(bmrLow, Multiplier(activityMultiplierLow))
        tdeeHigh == RoundProduct(bmrHigh, Multiplier(activityMultiplierHigh))
    IN  [bmr |-> bmr, bmr_low |-> bmrLow, bmr_high |-> bmrHigh,
         tdee |-> tdee, tdee_low |-> tdeeLow, tdee_high |-> tdeeHigh,
         target_calories |-> tdee - calorieDeficit,
         target_calories_low |-> tdeeLow - calorieDeficit,
         target_calories_high |-> tdeeHigh - calorieDeficit,
         protein_target_g |-> 0]

\* JavaScript truthiness of a nullable number: null and 0 are falsy.
IsSet(v) == v # Absent /\ v[1] # 0

\* Math.round(settings.weight_kg * 1.6)
ProteinTarget(weight_kg) == MathRound(16 * weight_kg, 1000)

\* calculateFullTDEE(settings, activityLevel): null is Absent, a result is
\* Given.
calculateFullTDEE(settings, activityLevel) ==
    IF \/ ~IsSet(settings.weight_kg) \/ ~IsSet(settings.height_cm)
       \/ ~IsSet(settings.age_years) \/ settings.sex = Absent
    THEN Absent
    ELSE LET b == calculateBMR(settings.weight_kg[1], settings.height_cm[1],
                               settings.age_years[1], settings.sex[1])
             tdeeCalc == calculateTDEE(b.bmr, b.bmr_low, b.bmr_high,
                                       activityLevel.multiplier,
                                       activityLevel.multiplier_low,
                                       activityLevel.multiplier_high,
                                       settings.calorie_deficit[1])
         IN  Given([tdeeCalc EXCEPT
                       !.protein_target_g = ProteinTarget(settings.weight_kg[1])])

\* const multipliers = [1.2, 1.375, 1.55, 1.725, 1.9], in thousandths.
multipliers == <<1200, 1375, 1550, 1725, 1900>>

\* bmr * multiplier for the unrounded bmr, in 1/16000 kcal: the sum is a
\* multiple of 25/10000 and every multiplier a multiple of 25/1000.
Times16000(bmr, multiplier) == (bmr \div 25) * (multiplier \div 25)

\* fetchActivity: setActivityLevel(data.activity?.activity_level_id || 3),
\* stored being the level of the day's row, if there is one.
fetchActivity(stored) == IF IsSet(stored) THEN stored[1] ELSE 3

\* Home: targetCalories and targetProtein of the dashboard. settings is
\* authStatus.settings, activityLevel the state that fetchActivity set.
HomeTargets(settings, activityLevel) ==
    IF /\ settings # Absent
       /\ IsSet(settings[1].weight_kg) /\ IsSet(settings[1].height_cm)
       /\ IsSet(settings[1].age_years) /\ settings[1].sex # Absent
    THEN LET p    == settings[1]
             bmr  == MifflinStJeor(p.weight_kg[1], p.height_cm[1], p.age_years[1],
                                   p.sex[1])
             multiplier == IF activityLevel # 0
                           THEN multipliers[activityLevel] ELSE 1200
             tdee == Times16000(bmr, multiplier)
         IN  [targetCalories |->
                  Given(MathRound(tdee - 16000 * p.calorie_deficit[1], 16000)),
              targetProtein |-> Given(ProteinTarget(p.weight_kg[1]))]
    ELSE [targetCalories |-> Absent, targetProtein |-> Absent]

\* getRecommendations(targetCalories, sex) of the dashboard's DailySummary.
getRecommendations(targetCalories, sex) ==
    LET cals   == IF IsSet(targetCalories) THEN targetCalories[1] ELSE 2000
        isMale == sex = Given("male")
    IN  [saturatedFat |-> [limit |-> MathRound(cals, 90)],
         sodium       |-> [limit |-> 2750, warning |-> 2300],
         addedSugar   |-> [limit |-> IF isMale THEN 36 ELSE 25],
         fiber        |-> [target |-> IF isMale THEN 38 ELSE 25]]

\* The dashboard's render: the targets, and the recommendations that
\* DailySummary derives from them and from authStatus.settings?.sex.
RenderSummary(settings, activityLevel) ==
    LET t == HomeTargets(settings, activityLevel)
    IN  [targetCalories |-> t.targetCalories,
         targetProtein  |-> t.targetProtein,
         recs |-> getRecommendations(t.targetCalories,
                                     IF settings = Absent THEN Absent
                                     ELSE settings[1].sex)]

(* GET /api/trends. A resolved_date is the day number of the date, so that
   new Date(d.date) is its UTC midnight; nutrient sums are integers of
   hundredths. *)

\* dailyData[date].x += item.x || 0 over the items of the entries of a date.
RECURSIVE SumItems(_, _)
SumItems(items, column) ==
    IF items = <<>> THEN 0
    ELSE items[1][column] + SumItems(Tail(items), column)

RECURSIVE ItemsOn(_, _)
ItemsOn(rows, date) ==
    IF rows = <<>> THEN <<>>
    ELSE (IF rows[1].resolved_date = date THEN rows[1].entry_items ELSE <<>>)
         \o ItemsOn(Tail(rows), date)

\* The trends endpoint's bmr: null without a complete profile.
TrendsBmr(settings) ==
    IF /\ settings # Absent
       /\ IsSet(settings[1].weight_kg) /\ IsSet(settings[1].height_cm)
       /\ IsSet(settings[1].age_years) /\ settings[1].sex # Absent
    THEN Given(MifflinStJeor(settings[1].weight_kg[1], settings[1].height_cm[1],
                             settings[1].age_years[1], settings[1].sex[1]))
    ELSE Absent

\* The entry that dailyData gets for a date, with the sums over its items,
\* and the two fields that chartData adds.
ChartDay(settings, bmr, activities, rows, date) ==
    LET stored == {a \in Range(activities) : a.resolved_date = date}
        activityLevel ==
            IF stored # {} /\ (CHOOSE a \in stored : TRUE).activity_level_id # 0
            THEN (CHOOSE a \in stored : TRUE).activity_level_id ELSE 3
        multiplier == multipliers[activityLevel]
        tdee == IF IsSet(bmr)
                THEN Given(MathRound(Times16000(bmr[1], multiplier), 16000))
                ELSE Absent
        targetCalories ==
            IF IsSet(tdee) /\ settings # Absent /\ IsSet(settings[1].calorie_deficit)
            THEN Given(tdee[1] - settings[1].calorie_deficit[1]) ELSE Absent
        targetProtein ==
            IF settings # Absent /\ IsSet(settings[1].weight_kg)
            THEN Given(ProteinTarget(settings[1].weight_kg[1])) ELSE Absent
        items == ItemsOn(rows, date)
        calories == SumItems(items, "calories")
        protein  == SumItems(items, "protein_g")
    IN  [date |-> date,
         calories |-> calories, protein |-> protein,
         carbs |-> SumItems(items, "carbs_g"), fat |-> SumItems(items, "fat_g"),
         saturatedFat |-> SumItems(items, "saturated_fat_g"),
         fiber |-> SumItems(items, "fiber_g"),
         addedSugar |-> SumItems(items, "added_sugar_g"),
         sodium |-> SumItems(items, "sodium_mg"),
         tdee |-> tdee, targetCalories |-> targetCalories,
         targetProtein |-> targetProtein,
         deficit |-> IF IsSet(tdee) THEN Given(100 * tdee[1] - calories) ELSE Absent,
         proteinPercent |-> IF IsSet(targetProtein)
                            THEN Given(MathRound(protein, targetProtein[1]))
                            ELSE Absent]

\* The dates of a set in ascending order.
RECURSIVE Ascending(_)
Ascending(dates) ==
    IF dates = {} THEN <<>>
    ELSE LET first == CHOOSE d \in dates : \A e \in dates : d <= e
         IN  <<first>> \o Ascending(dates \ {first})

RECURSIVE SumDays(_, _)
SumDays(data, field) ==
    IF data = <<>> THEN 0 ELSE data[1][field] + SumDays(Tail(data), field)

\* The sum of a nullable field over the days where it is not null.
RECURSIVE SumGiven(_, _)
SumGiven(data, field) ==
    IF data = <<>> THEN 0 ELSE data[1][field][1] + SumGiven(Tail(data), field)

\* calculateAverages(data): null is Absent.
calculateAverages(data) ==
    IF Len(data) = 0 THEN Absent
    ELSE LET withDeficit == SelectSeq(data, LAMBDA d : d.deficit # Absent)
             withProtein == SelectSeq(data, LAMBDA d : d.proteinPercent # Absent)
             Avg(field)  == MathRound(SumDays(data, field), 100 * Len(data))
         IN  Given(
             [avgCalories |-> Avg("calories"),
              avgProtein |-> Avg("protein"),
              avgDeficit |->
                  IF Len(withDeficit) > 0
                  THEN Given(MathRound(SumGiven(withDeficit, "deficit"),
                                       100 * Len(withDeficit)))
                  ELSE Absent,
              avgProteinPercent |->
                  IF Len(withProtein) > 0
                  THEN Given(MathRound(SumGiven(withProtein, "proteinPercent"),
                                       Len(withProtein)))
                  ELSE Absent,
              avgSaturatedFat |-> Avg("saturatedFat"),
              avgAddedSugar |-> Avg("addedSugar"),
              avgSodium |-> Avg("sodium"),
              avgFiber |-> Avg("fiber"),
              daysTracked |-> Len(data)])

\* The recommendations of the trends endpoint, from its own target calories
\* at moderate activity.
TrendsRecommendations(settings, bmr) ==
    LET isMale == settings # Absent /\ settings[1].sex = Given("male")
        targetCalories ==
            IF IsSet(bmr) /\ settings # Absent /\ IsSet(settings[1].calorie_deficit)
            THEN MathRound(Times16000(bmr[1], 1550)
                           - 16000 * settings[1].calorie_deficit[1], 16000)
            ELSE 2000
    IN  [targetCalories |-> targetCalories,
         saturatedFatLimit |-> MathRound(targetCalories, 90),
         addedSugarLimit |-> IF isMale THEN 36 ELSE 25,
         sodiumLimit |-> 2300,
         fiberTarget |-> IF isMale THEN 38 ELSE 25]

\* GET /api/trends with the default of 30 days, on a server whose clock runs
\* in UTC. settings: the user's row of user_settings, if any; rows: the
\* user's entries with their items, in ascending order of resolved_date;
\* activities: the user's rows of daily_activity.
GetTrends(userId, settings, rows, activities, now) ==
    IF userId = NoUser THEN [status |-> 401]
    ELSE
    LET startDate == (now - 30 * MinutesPerDay) \div MinutesPerDay
        endDate   == now \div MinutesPerDay
        InRange(r) == startDate <= r.resolved_date /\ r.resolved_date <= endDate
        found     == SelectSeq(rows, InRange)
        levels    == SelectSeq(activities, InRange)
        bmr       == TrendsBmr(settings)
        dates     == Ascending({found[i].resolved_date : i \in 1..Len(found)})
        chartData == [i \in 1..Len(dates) |->
                         ChartDay(settings, bmr, levels, found, dates[i])]
        Since(days) ==
            SelectSeq(chartData,
                      LAMBDA d : d.date * MinutesPerDay >= now - days * MinutesPerDay)
        r == TrendsRecommendations(settings, bmr)
    IN  [status |-> 200,
         chartData |-> chartData,
         averages |-> [week  |-> calculateAverages(Since(7)),
                       month |-> calculateAverages(Since(30))],
         recommendations |->
             [saturatedFatLimit |-> r.saturatedFatLimit,
              addedSugarLimit |-> r.addedSugarLimit,
              sodiumLimit |-> r.sodiumLimit, fiberTarget |-> r.fiberTarget],
         settings |->
             IF settings = Absent THEN Absent
             ELSE Given([targetProtein |->
                             IF IsSet(settings[1].weight_kg)
                             THEN Given(ProteinTarget(settings[1].weight_kg[1]))
                             ELSE Absent,
                         calorieDeficit |-> settings[1].calorie_deficit])]

Weights == {7000, 8250, 5525, 9010}

Heights == {17500, 16050, 18288}

Ages == {30, 45, 23}

Sexes == {"male", "female"}

BmrCalls ==
    {[fn |-> f, weightKg |-> w, heightCm |-> h, ageYears |-> a, sex |-> x] :
        f \in {"calculateBMR", "calculate_bmr"},
        w \in Weights, h \in Heights, a \in Ages, x \in Sexes}

Deficits == {500, 0, -300}

\* The profiles: complete ones, and ones with a body stat missing.
Profile(w, h, a, x, d) ==
    [weight_kg |-> w, height_cm |-> h, age_years |-> a, sex |-> x,
     calorie_deficit |-> Given(d)]

Profiles ==
    {Profile(w, h, a, x, d) :
        w \in {Given(7000), Given(8250), Absent},
        h \in {Given(17500), Given(16050), Absent},
        a \in {Given(30), Absent},
        x \in {Given("male"), Given("female"), Absent},
        d \in Deficits}

TdeeCalls ==
    {[fn |-> "calculateTDEE", bmr |-> b[1], bmrLow |-> b[2], bmrHigh |-> b[3],
      level |-> l, calorieDeficit |-> d] :
        b \in {<<1649, 1484, 1814>>, <<1483, 1334, 1631>>, <<1850, 1665, 2035>>},
        l \in 1..5, d \in Deficits}

FullCalls ==
    {[fn |-> "calculateFullTDEE", settings |-> p, level |-> l] :
        p \in Profiles, l \in {1, 3}}

HomeCalls ==
    {[fn |-> "Home", settings |-> q, stored |-> l] :
        q \in {Given(p) : p \in Profiles} \cup {Absent}, l \in {Given(3), Given(5), Absent}}

\* The clock of the requests.
Now == Utc(2026, 1, 30, 5, 3)

Today == Now \div MinutesPerDay

LoggedOn(daysAgo, items) == [resolved_date |-> Today - daysAgo, entry_items |-> items]

\* What the user has logged: nothing, one day, two entries on a day of this
\* week and one today, and days of earlier weeks and before the range.
Diaries ==
    {<<>>,
     <<LoggedOn(0, <<Toast>>)>>,
     <<LoggedOn(5, <<Toast>>), LoggedOn(5, <<Eggs, Coffee>>), LoggedOn(0, <<Eggs>>)>>,
     <<LoggedOn(40, <<Toast>>), LoggedOn(20, <<Toast, Eggs>>), LoggedOn(7, <<Eggs>>),
       LoggedOn(0, <<>>)>>}

ActivityRows ==
    {<<>>, <<[resolved_date |-> Today, activity_level_id |-> 5]>>,
     <<[resolved_date |-> Today - 5, activity_level_id |-> 1]>>}

TrendsCalls ==
    {[fn |-> "trends", user |-> "u1", settings |-> q, rows |-> d, activities |-> a] :
        q \in {Given(p) : p \in Profiles} \cup {Absent}, d \in Diaries, a \in ActivityRows}
    \cup {[fn |-> "trends", user |-> NoUser, settings |-> Absent, rows |-> <<>>,
           activities |-> <<>>]}

CalcCalls == BmrCalls \cup TdeeCalls \cup FullCalls \cup HomeCalls \cup TrendsCalls

InitCalc ==
    /\ call \in CalcCalls
    /\ ret = NoRet
    /\ IdleApp /\ IdleHome /\ IdleRest

CallCalculateBMR ==
    /\ call.fn = "calculateBMR" /\ ~ret.done
    /\ ret' = Returned(calculateBMR(call.weightKg, call.heightCm, call.ageYears, call.sex))
    /\ UNCHANGED <<call, appVars, homeVars, restVars>>

CallSqlBmr ==
    /\ call.fn = "calculate_bmr" /\ ~ret.done
    /\ ret' = Returned(calculate_bmr(call.weightKg, call.heightCm, call.ageYears, call.sex))
    /\ UNCHANGED <<call, appVars, homeVars, restVars>>

CallCalculateTDEE ==
    /\ call.fn = "calculateTDEE" /\ ~ret.done
    /\ LET l == DEFAULT_ACTIVITY_LEVELS[call.level]
       IN  ret' = Returned(calculateTDEE(call.bmr, call.bmrLow, call.bmrHigh,
                                         l.multiplier, l.multiplier_low,
                                         l.multiplier_high, call.calorieDeficit))
    /\ UNCHANGED <<call, appVars, homeVars, restVars>>

CallCalculateFullTDEE ==
    /\ call.fn = "calculateFullTDEE" /\ ~ret.done
    /\ ret' = Returned(calculateFullTDEE(call.settings,
                                         DEFAULT_ACTIVITY_LEVELS[call.level]))
    /\ UNCHANGED <<call, appVars, homeVars, restVars>>

\* The dashboard renders with the settings and the day's level it fetched.
RenderTargets ==
    /\ call.fn = "Home" /\ ~ret.done
    /\ ret' = Returned(RenderSummary(call.settings, fetchActivity(call.stored)))
    /\ UNCHANGED <<call, appVars, homeVars, restVars>>

Trends ==
    /\ call.fn = "trends" /\ ~ret.done
    /\ ret' = Returned(GetTrends(call.user, call.settings, call.rows,
                                 call.activities, Now))
    /\ UNCHANGED <<call, appVars, homeVars, restVars>>

NextCalc ==
    \/ CallCalculateBMR \/ CallSqlBmr \/ CallCalculateTDEE
    \/ CallCalculateFullTDEE \/ RenderTargets \/ Trends

SpecCalc == InitCalc /\ [][NextCalc]_vars

-----------------------------------------------------------------------------
(* The day's activity level *)

(* daily_activity as the schema declares it, resolved_date UNIQUE and
   activity_level_id a reference to the five activity_levels, with the user_id
   column that the route reads and writes. A resolved_date is the day number
   of the date. *)

\* The insert without the UNIQUE constraint on resolved_date.
InsertActivity_NoUnique(rows, userId, date, level, fails) ==
    IF fails THEN [rows |-> rows, error |-> "database"]
    ELSE IF level \notin 1..5 THEN [rows |-> rows, error |-> "reference"]
    ELSE [rows |-> Append(rows, [user_id |-> userId, resolved_date |-> date,
                                 activity_level_id |-> level]),
          error |-> ""]

\* .insert({ user_id, resolved_date, activity_level_id }): the rows after it,
\* and the error that the database reported ("" for none). fails: an error
\* that the constraints do not account for.
InsertActivity(rows, userId, date, level, fails) ==
    IF fails THEN [rows |-> rows, error |-> "database"]
    ELSE IF level \notin 1..5 THEN [rows |-> rows, error |-> "reference"]
    ELSE IF \E i \in 1..Len(rows) : rows[i].resolved_date = date
    THEN [rows |-> rows, error |-> "unique"]
    ELSE [rows |-> Append(rows, [user_id |-> userId, resolved_date |-> date,
                                 activity_level_id |-> level]),
          error |-> ""]

\* .delete().eq('user_id', userId).eq('resolved_date', date)
DeleteActivity(rows, userId, date) ==
    SelectSeq(rows, LAMBDA r : ~(r.user_id = userId /\ r.resolved_date = date))

\* POST /api/activity up to the delete, whose outcome the route does not
\* look at. fails: the delete removes nothing.
ActivityDelete(h, userId, body, fails) ==
    LET status == IF userId = NoUser THEN 401
                  ELSE IF body.date = Absent \/ ~IsSet(body.activity_level_id) THEN 400
                  ELSE 0
    IN  /\ posting[h].pc = "idle"
        /\ posting' = [posting EXCEPT ![h] =
               IF status # 0
               THEN [pc |-> "idle", order |-> 0, status |-> status]
               ELSE [pc |-> "deleted", order |-> 0, status |-> 0, user |-> userId,
                     date |-> body.date[1], level |-> body.activity_level_id[1],
                     deleted |-> ~fails, error |-> ""]]
        /\ daily_activity' =
               IF status # 0 \/ fails THEN daily_activity
               ELSE DeleteActivity(daily_activity, userId, body.date[1])
        /\ served' = served + 1
        /\ UNCHANGED <<dateVars, timezone, entries, entry_items, nextId, lastReq,
                       homeVars, inflight, lastActivity>>

\* POST /api/activity from the insert on.
ActivityInsert(h, fails) ==
    LET p == posting[h]
        r == InsertActivity(daily_activity, p.user, p.date, p.level, fails)
    IN  /\ p.pc = "deleted"
        /\ daily_activity' = r.rows
        /\ posting' = [posting EXCEPT ![h].pc = "idle", ![h].error = r.error,
                                      ![h].status = IF r.error # "" THEN 500 ELSE 200]
        /\ lastActivity' =
               IF r.error # "" THEN lastActivity
               ELSE {t \in lastActivity : ~(t[1] = p.user /\ t[2] = p.date)}
                    \cup {<<p.user, p.date, p.level>>}
        /\ UNCHANGED <<dateVars, appVars, homeVars, inflight>>

MaxActivityRequests == 3

ActivityBodies ==
    {[date |-> Given(d), activity_level_id |-> Given(l)] :
        d \in {Today, Today - 1}, l \in {2, 4}}
    \cup {[date |-> Given(Today), activity_level_id |-> Given(9)],
          [date |-> Given(Today), activity_level_id |-> Given(0)],
          [date |-> Given(Today), activity_level_id |-> Absent],
          [date |-> Absent, activity_level_id |-> Given(2)]}

ActivityCalls ==
    {<<"u1", b>> : b \in ActivityBodies}
    \cup {<<"u2", [date |-> Given(Today), activity_level_id |-> Given(4)]>>,
          <<NoUser, [date |-> Given(Today), activity_level_id |-> Given(2)]>>}

PostActivity ==
    /\ served < MaxActivityRequests
    /\ \E h \in Handlers, c \in ActivityCalls, fails \in BOOLEAN :
          ActivityDelete(h, c[1], c[2], fails)

FinishActivity == \E h \in Handlers, fails \in BOOLEAN : ActivityInsert(h, fails)

NextActivity == PostActivity \/ FinishActivity

SpecActivity == Init /\ [][NextActivity]_vars

-----------------------------------------------------------------------------
(* Deleting an entry *)

\* The statement deletes the entry and no item: entry_items without its
\* ON DELETE CASCADE.
DeleteEntry_NoCascade(userId, id, fails) ==
    LET i      == RowIndex(entries, id)
        status == IF userId = NoUser THEN 401 ELSE IF fails THEN 500 ELSE 200
        Matches(e) == e.id = id /\ e.user_id = userId
    IN  /\ entries' = IF status = 200 THEN SelectSeq(entries, LAMBDA e : ~Matches(e))
                      ELSE entries
        /\ entry_items' = entry_items
        /\ lastReq' = [op |-> "DELETE", status |-> status, id |-> id, user |-> userId,
                       owner |-> IF i # 0 THEN entries[i].user_id ELSE NoUser,
                       items |-> Len(SelectSeq(entry_items, LAMBDA r : r.entry_id = id))]
        /\ served' = served + 1
        /\ UNCHANGED <<timezone, nextId>>

\* DELETE /api/entries/[id]: one delete on entries by id and user_id, and
\* with it, by ON DELETE CASCADE, the items of the rows it deletes. fails:
\* the database reports an error.
DeleteEntry(userId, id, fails) ==
    LET i      == RowIndex(entries, id)
        status == IF userId = NoUser THEN 401 ELSE IF fails THEN 500 ELSE 200
        Matches(e) == e.id = id /\ e.user_id = userId
        gone   == {entries[j].id : j \in {k \in 1..Len(entries) : Matches(entries[k])}}
    IN  /\ entries' = IF status = 200 THEN SelectSeq(entries, LAMBDA e : ~Matches(e))
                      ELSE entries
        /\ entry_items' =
               IF status = 200
               THEN SelectSeq(entry_items, LAMBDA r : r.entry_id \notin gone)
               ELSE entry_items
        /\ lastReq' = [op |-> "DELETE", status |-> status, id |-> id, user |-> userId,
                       owner |-> IF i # 0 THEN entries[i].user_id ELSE NoUser,
                       items |-> Len(SelectSeq(entry_items, LAMBDA r : r.entry_id = id))]
        /\ served' = served + 1
        /\ UNCHANGED <<timezone, nextId>>

\* Meals of one item, of two, and of none.
LoggedMeals == {Meal(<<Toast, Eggs>>, NullStr), Meal(<<Coffee>>, NullStr),
                Meal(<<>>, NullStr)}

EntryIds == {entries[i].id : i \in 1..Len(entries)}

DeleteCalls ==
    {<<u, FALSE>> : u \in {"u1", "u2", NoUser}} \cup {<<"u1", TRUE>>}

LogMeal ==
    /\ served < MaxRequests
    /\ \E u \in {"u1", "u2"}, meal \in LoggedMeals, itemsFail \in BOOLEAN :
          PostEntries(u, PlainRequest, meal, Utc(2026, 1, 30, 5, 3), FALSE, itemsFail)
    /\ UNCHANGED <<dateVars, homeVars, restVars>>

Delete ==
    /\ served < MaxRequests
    /\ \E c \in DeleteCalls, id \in EntryIds \cup {nextId} : DeleteEntry(c[1], id, c[2])
    /\ UNCHANGED <<dateVars, homeVars, restVars>>

NextDelete == LogMeal \/ Delete

SpecDelete == Init /\ [][NextDelete]_vars

-----------------------------------------------------------------------------
(* Entry creation with estimates that are not consistent *)

\* The low bound of the calories is above the value.
Soup ==
    FoodItem("soup", <<10000, 12000, 15000>>, <<500, 400, 600>>,
             <<1200, 1000, 1400>>, <<300, 200, 400>>, <<100, 50, 150>>,
             <<200, 150, 250>>, <<200, 100, 300>>, <<80000, 60000, 99000>>,
             <<0, 0, 0>>)

\* 10 g of fat, of which 3 g saturated and 3 g unsaturated; the protein
\* is above its high bound.
Fries ==
    FoodItem("fries", <<30000, 25000, 35000>>, <<400, 300, 350>>,
             <<4000, 3500, 4500>>, <<1000, 800, 1200>>, <<300, 200, 400>>,
             <<300, 200, 400>>, <<300, 200, 400>>, <<20000, 15000, 25000>>,
             <<0, 0, 0>>)

\* 0.8 g of fat with no breakdown: below the 1 g the check starts at.
Apple ==
    FoodItem("apple", <<9500, 8000, 11000>>, <<50, 30, 70>>,
             <<2500, 2000, 3000>>, <<80, 30, 100>>, <<0, 0, 0>>,
             <<0, 0, 0>>, <<440, 350, 500>>, <<200, 0, 400>>,
             <<0, 0, 0>>)

ParsedMeals ==
    {Meal(<<Toast>>, NullStr), Meal(<<Soup>>, NullStr), Meal(<<Fries>>, NullStr),
     Meal(<<Apple>>, NullStr), Meal(<<Soup, Fries>>, NullStr),
     Meal(<<Toast, Soup>>, NullStr)}

\* The database fails on the entry, on the items, or not at all.
ParsedOutcomes == {<<FALSE, FALSE>>, <<TRUE, FALSE>>, <<FALSE, TRUE>>}

PostParsed ==
    /\ served < MaxRequests
    /\ \E meal \in ParsedMeals, o \in ParsedOutcomes :
          PostEntries("u1", PlainRequest, meal, Utc(2026, 1, 30, 5, 3), o[1], o[2])
    /\ UNCHANGED <<dateVars, homeVars, restVars>>

PostUnparsed ==
    /\ served < MaxRequests
    /\ \E u \in {"u1", NoUser} :
          PostEntries(u, PlainRequest, [throws |-> TRUE, items |-> <<>>, explicit_date |-> NullStr],
                      Utc(2026, 1, 30, 5, 3), FALSE, FALSE)
    /\ UNCHANGED <<dateVars, homeVars, restVars>>

NextParsed == PostParsed \/ PostUnparsed

SpecParsed == Init /\ [][NextParsed]_vars

-----------------------------------------------------------------------------
(* Every write of the application, by two users *)

\* DELETE /api/entries/items/[id]. fails: the database reports an error on
\* the delete.
DeleteItem(userId, id, fails) ==
    LET i      == RowIndex(entry_items, id)
        status == IF userId = NoUser THEN 401
                  ELSE IF ~verifyItemOwnership(id, userId) THEN 404
                  ELSE IF fails THEN 500
                  ELSE 200
    IN  /\ entry_items' = IF status = 200
                          THEN SelectSeq(entry_items, LAMBDA r : r.id # id)
                          ELSE entry_items
        /\ lastReq' = [op |-> "DELETE item", status |-> status, id |-> id,
                       user |-> userId,
                       before |-> IF i # 0 THEN entry_items[i] ELSE NoRow]
        /\ served' = served + 1
        /\ UNCHANGED <<timezone, entries, nextId>>

\* The update of the settings also moves every entry to the date its
\* creation has in the new timezone.
PatchSettings_MovesEntries(userId, tz, fails) ==
    LET status == IF userId = NoUser THEN 401 ELSE IF fails THEN 500 ELSE 200
    IN  /\ timezone' = IF status = 200 THEN tz ELSE timezone
        /\ entries' = IF status = 200
                      THEN [i \in 1..Len(entries) |->
                              [entries[i] EXCEPT !.resolved_date =
                                  getTodayInTimezone(entries[i].created_at, tz)]]
                      ELSE entries
        /\ lastReq' = [op |-> "PATCH settings", status |-> status, id |-> 0,
                       user |-> userId]
        /\ served' = served + 1
        /\ UNCHANGED <<entry_items, nextId>>

\* PATCH /api/settings with a timezone: an update of the user's row of
\* user_settings and of nothing else.
PatchSettings(userId, tz, fails) ==
    LET status == IF userId = NoUser THEN 401 ELSE IF fails THEN 500 ELSE 200
    IN  /\ timezone' = IF status = 200 THEN tz ELSE timezone
        /\ entries' = entries
        /\ lastReq' = [op |-> "PATCH settings", status |-> status, id |-> 0,
                       user |-> userId]
        /\ served' = served + 1
        /\ UNCHANGED <<entry_items, nextId>>

Users == {"u1", "u2"}

AllMeals == {Meal(<<Toast, Eggs>>, NullStr), Meal(<<Coffee>>, NullStr)}

AllBodies == {Body([calories |-> 10000]), Body([food_name |-> "renamed"]), NoBody}

AllPost ==
    /\ served < MaxRequests
    /\ \E meal \in AllMeals, itemsFail \in BOOLEAN :
          PostEntries("u1", PlainRequest, meal, Utc(2026, 1, 30, 5, 3), FALSE, itemsFail)
    /\ UNCHANGED <<dateVars, homeVars, restVars>>

\* The second user has no user_settings row, so the zone the handler resolves the
\* date in is the default one: the step is taken while no zone is stored.
AllPostOther ==
    /\ served < MaxRequests
    /\ timezone = ""
    /\ PostEntries("u2", PlainRequest, Meal(<<Coffee>>, NullStr),
                   Utc(2026, 1, 30, 5, 3), FALSE, FALSE)
    /\ UNCHANGED <<dateVars, homeVars, restVars>>

\* GET /api/entries?date=: the rows of the caller on that date, each with its
\* items; the page keeps what the response holds.
GetEntriesRequest(userId, date) ==
    /\ homeEntries' = IF userId = NoUser THEN homeEntries
                      ELSE GetEntries(userId, date)
    /\ lastReq' = [op |-> "GET", status |-> IF userId = NoUser THEN 401 ELSE 200,
                   id |-> 0, user |-> userId, date |-> date]
    /\ served' = served + 1
    /\ UNCHANGED <<timezone, entries, entry_items, nextId, totals>>

AllGet ==
    /\ served < MaxRequests
    /\ \E u \in Users \cup {NoUser}, i \in 1..Len(entries) :
          GetEntriesRequest(u, entries[i].resolved_date)
    /\ UNCHANGED <<dateVars, restVars>>

AllPatch ==
    /\ served < MaxRequests
    /\ \E u \in Users, body \in AllBodies, id \in ItemIds :
          PatchItem(u, id, body, FALSE)
    /\ UNCHANGED <<dateVars, homeVars, restVars>>

AllDeleteItem ==
    /\ served < MaxRequests
    /\ \E u \in Users \cup {NoUser}, id \in ItemIds \cup {nextId}, fails \in BOOLEAN :
          DeleteItem(u, id, fails)
    /\ UNCHANGED <<dateVars, homeVars, restVars>>

AllDeleteEntry ==
    /\ served < MaxRequests
    /\ \E u \in Users, id \in EntryIds : DeleteEntry(u, id, FALSE)
    /\ UNCHANGED <<dateVars, homeVars, restVars>>

AllSettings ==
    /\ served < MaxRequests
    /\ \E c \in {<<"u1", "Asia/Tokyo", FALSE>>, <<"u1", "America/New_York", FALSE>>,
                 <<"u1", "Asia/Tokyo", TRUE>>, <<NoUser, "Asia/Tokyo", FALSE>>} :
          PatchSettings(c[1], c[2], c[3])
    /\ UNCHANGED <<dateVars, homeVars, restVars>>

AllActivity ==
    /\ served < MaxRequests
    /\ \E u \in Users, l \in {2, 4} :
          ActivityDelete(1, u, [date |-> Given(Today), activity_level_id |-> Given(l)], FALSE)

AllActivityDone == \E fails \in BOOLEAN : ActivityInsert(1, fails)

NextAll ==
    \/ AllPost \/ AllPostOther \/ AllGet \/ AllPatch \/ AllDeleteItem \/ AllDeleteEntry
    \/ AllSettings \/ AllActivity \/ AllActivityDone

SpecAll == Init /\ [][NextAll]_vars

-----------------------------------------------------------------------------
(* src/lib/auth.ts: session tokens.                                        *)
(* A string is the sequence of its characters, a buffer the sequence of   *)
(* its bytes. User ids and random parts are ASCII, one byte a character.  *)

\* The characters of codes 32 to 126, in order; the double quote, the
\* backslash and the backtick are written by name.
AsciiChars ==
  <<" ", "!", "quote", "#", "$", "%", "&", "'", "(", ")", "*", "+", ",", "-",
    ".", "/", "0", "1", "2", "3", "4", "5", "6", "7", "8", "9", ":", ";",
    "<", "=", ">", "?", "@", "A", "B", "C", "D", "E", "F", "G", "H", "I",
    "J", "K", "L", "M", "N", "O", "P", "Q", "R", "S", "T", "U", "V", "W",
    "X", "Y", "Z", "[", "backslash", "]", "^", "_", "backtick", "a", "b", "c", "d", "e",
    "f", "g", "h", "i", "j", "k", "l", "m", "n", "o", "p", "q", "r", "s",
    "t", "u", "v", "w", "x", "y", "z", "{", "|", "}", "~">>

\* The base64 alphabet, in the order of its values.
Base64Chars ==
  <<"A", "B", "C", "D", "E", "F", "G", "H", "I", "J", "K", "L", "M", "N",
    "O", "P", "Q", "R", "S", "T", "U", "V", "W", "X", "Y", "Z", "a", "b",
    "c", "d", "e", "f", "g", "h", "i", "j", "k", "l", "m", "n", "o", "p",
    "q", "r", "s", "t", "u", "v", "w", "x", "y", "z", "0", "1", "2", "3",
    "4", "5", "6", "7", "8", "9", "+", "/">>

CharCode(c) == 31 + (CHOOSE i \in 1..Len(AsciiChars) : AsciiChars[i] = c)

\* Buffer.from(text): the bytes of an ASCII text.
BytesOf(text) == [k \in 1..Len(text) |-> CharCode(text[k])]

\* buffer.toString('utf-8'): a byte below 128 is its character, a byte
\* from 128 on is no ASCII character and never the colon.
CharOf(b) ==
    IF b >= 32 /\ b <= 126 THEN AsciiChars[b - 31]
    ELSE IF b < 128 THEN "control" ELSE "U+FFFD"

TextOf(bytes) == [k \in 1..Len(bytes) |-> CharOf(bytes[k])]

ByteAt(bytes, k) == IF k <= Len(bytes) THEN bytes[k] ELSE 0

\* The four characters that encode the bytes 3g-2 .. 3g, "=" where the
\* buffer has ended.
EncodeGroup(bytes, g) ==
    LET n == ByteAt(bytes, 3 * g - 2) * 65536 + ByteAt(bytes, 3 * g - 1) * 256
             + ByteAt(bytes, 3 * g)
    IN  <<Base64Chars[(n \div 262144) + 1],
          Base64Chars[((n \div 4096) % 64) + 1],
          IF 3 * g - 1 <= Len(bytes) THEN Base64Chars[((n \div 64) % 64) + 1] ELSE "=",
          IF 3 * g <= Len(bytes) THEN Base64Chars[(n % 64) + 1] ELSE "=">>

RECURSIVE EncodeGroups(_, _)
EncodeGroups(bytes, g) ==
    IF g = 0 THEN <<>> ELSE EncodeGroups(bytes, g - 1) \o EncodeGroup(bytes, g)

\* buffer.toString('base64')
ToBase64(bytes) == EncodeGroups(bytes, (Len(bytes) + 2) \div 3)

\* The value of a character in base64, -1 when it has none. The decoder
\* also takes the two characters of the URL-safe alphabet.
Unbase64(c) ==
    IF \E i \in 1..64 : Base64Chars[i] = c
    THEN (CHOOSE i \in 1..64 : Base64Chars[i] = c) - 1
    ELSE IF c = "-" THEN 62 ELSE IF c = "_" THEN 63 ELSE -1

SextetAt(sextets, k) == IF k <= Len(sextets) THEN sextets[k] ELSE 0

DecodeGroup(sextets, g) ==
    LET n     == SextetAt(sextets, 4 * g - 3) * 262144 + SextetAt(sextets, 4 * g - 2) * 4096
                 + SextetAt(sextets, 4 * g - 1) * 64 + SextetAt(sextets, 4 * g)
        have  == IF 4 * g <= Len(sextets) THEN 4 ELSE Len(sextets) - 4 * (g - 1)
        bytes == <<n \div 65536, (n \div 256) % 256, n % 256>>
    IN  SubSeq(bytes, 1, IF have = 4 THEN 3 ELSE IF have = 3 THEN 2
                         ELSE IF have = 2 THEN 1 ELSE 0)

RECURSIVE DecodeGroups(_, _)
DecodeGroups(sextets, g) ==
    IF g = 0 THEN <<>> ELSE DecodeGroups(sextets, g - 1) \o DecodeGroup(sextets, g)

\* Buffer.from(token, 'base64'): the characters that have no value are
\* skipped, the others decoded four at a time; it never throws.
FromBase64(token) ==
    LET valued  == SelectSeq(token, LAMBDA c : Unbase64(c) >= 0)
        sextets == [k \in 1..Len(valued) |-> Unbase64(valued[k])]
    IN  DecodeGroups(sextets, (Len(sextets) + 3) \div 4)

\* createSessionToken(userId). randomPart: what Math.random() and
\* Date.now() give, in base 36.
createSessionToken(userId, randomPart) ==
    ToBase64(BytesOf(userId \o <<":">> \o randomPart))

IndexOfColon(text) ==
    IF \E k \in 1..Len(text) : text[k] = ":"
    THEN CHOOSE k \in 1..Len(text) : text[k] = ":" /\ \A j \in 1..(k - 1) : text[j] # ":"
    ELSE 0

\* The text after the first colon is taken for the user id.
parseSessionToken_AfterColon(token) ==
    IF Len(token) = 0 \/ Len(token) < 10 THEN NullStr
    ELSE LET decoded == TextOf(FromBase64(token))
             colon   == IndexOfColon(decoded)
         IN  IF colon = 0 THEN NullStr
             ELSE LET userId == SubSeq(decoded, colon + 1, Len(decoded))
                  IN  IF Len(userId) < 1 THEN NullStr ELSE Str(userId)

\* parseSessionToken(token): null, or the text before the first colon.
parseSessionToken(token) ==
    IF Len(token) = 0 \/ Len(token) < 10 THEN NullStr
    ELSE LET decoded == TextOf(FromBase64(token))
             colon   == IndexOfColon(decoded)
         IN  IF colon = 0 THEN NullStr
             ELSE LET userId == SubSeq(decoded, 1, colon - 1)
                  IN  IF Len(userId) < 1 THEN NullStr ELSE Str(userId)

\* The ids of users: UUIDs and simple ids, one of them the beginning of
\* another, of every length modulo 3.
UserIds ==
    {<<"u", "1">>,
     <<"u", "1", "2">>,
     <<"u", "s", "e", "r", "-", "1">>,
     <<"u", "s", "e", "r", "-", "1", "2">>,
     <<"a", "1", "b", "2", "c", "3", "d", "4", "-", "e", "5", "f", "6">>,
     <<"7", "e", "9">>,
     <<"0">>,
     <<"u", "s", "e", "r", "-", "4", "5", "6", "-", "d", "e", "f">>,
     <<"e", "5", "f", "6", "-", "7", "8", "9", "0", "-", "a", "b", "c", "d">>,
     <<"a", "b">>}

RandomParts ==
    {<<"k", "f", "1", "2", "o", "i", "5", "x", "m", "j", "3", "a", "9", "z", "0", "q">>,
     <<"m", "j", "3", "a", "9", "z", "0", "q">>,
     <<"0", "z", "m", "j", "3", "a", "9", "z", "0", "q">>,
     <<"4", "f", "z", "c", "8", "m", "j", "3", "a", "9", "z", "0", "q">>}

\* Tokens that no createSessionToken returned: the empty one, short ones,
\* text that is not base64, and the base64 of payloads that are not
\* userId:randomToken.
OtherTokens ==
    {<<>>,
     <<"i", "n", "v", "a", "l", "i", "d">>,
     <<"d", "T", "E", "6", "Y", "Q", "=", "=">>,
     <<"!", "!", "!", "!", "!", "!", "!", "!", "!", "!", "!", "!">>,
     <<"a", "a", "a", "a", "a", "a", "a", "a", "a", "a", "a", "a">>,
     <<"n", "o", "t", " ", "a", " ", "s", "e", "s", "s", "i", "o", "n", " ", "t", "o", "k", "e", "n">>,
     ToBase64(BytesOf(<<"u", "s", "e", "r", "-", "1", "k", "f", "1", "2", "o", "i", "5", "x">>)),
     ToBase64(BytesOf(<<":", "k", "f", "1", "2", "o", "i", "5", "x", "m", "j", "3", "a">>)),
     ToBase64(BytesOf(<<"k", "f", "1", "2", "o", "i", "5", "x", "m", "j", "3", "a", "9", "z", "0", "q">>))}

TokenCalls ==
    {[fn |-> "createSessionToken", userId |-> id, randomPart |-> r] :
        id \in UserIds, r \in RandomParts}
    \cup {[fn |-> "parseSessionToken", token |-> t] : t \in OtherTokens}

InitToken ==
    /\ call \in TokenCalls
    /\ ret = NoRet
    /\ IdleApp /\ IdleHome /\ IdleRest

\* Login: the token of the user is created and set as the cookie.
CallCreateSessionToken ==
    /\ call.fn = "createSessionToken" /\ ~ret.done
    /\ ret' = Returned([stage |-> "created",
                        token |-> createSessionToken(call.userId, call.randomPart)])
    /\ UNCHANGED <<call, appVars, homeVars, restVars>>

\* getUserId() on a later request: the cookie is parsed.
CallParseCookie ==
    /\ call.fn = "createSessionToken" /\ ret.done /\ ret.value.stage = "created"
    /\ ret' = Returned([stage |-> "parsed", token |-> ret.value.token,
                        userId |-> parseSessionToken(ret.value.token)])
    /\ UNCHANGED <<call, appVars, homeVars, restVars>>

CallParseSessionToken ==
    /\ call.fn = "parseSessionToken" /\ ~ret.done
    /\ ret' = Returned([stage |-> "parsed", token |-> call.token,
                        userId |-> parseSessionToken(call.token)])
    /\ UNCHANGED <<call, appVars, homeVars, restVars>>

NextToken == CallCreateSessionToken \/ CallParseCookie \/ CallParseSessionToken

SpecToken == InitToken /\ [][NextToken]_vars

-----------------------------------------------------------------------------
(* GET /api/trends after meals were logged, in the zones of the model *)

\* The rows that the trends query reads before its date filter: the caller's
\* entries with their items, in ascending order of resolved_date.
TrendsRows(userId) ==
    LET mine  == SelectSeq(entries, LAMBDA e : e.user_id = userId)
        rows  == [i \in 1..Len(mine) |->
                     [resolved_date |-> DayOfString(mine[i].resolved_date),
                      entry_items |-> SelectSeq(entry_items,
                                                LAMBDA r : r.entry_id = mine[i].id)]]
        dates == Ascending({rows[i].resolved_date : i \in 1..Len(rows)})
        RECURSIVE From(_)
        From(k) == IF k > Len(dates) THEN <<>>
                   ELSE SelectSeq(rows, LAMBDA r : r.resolved_date = dates[k])
                        \o From(k + 1)
    IN  From(1)

\* GET /api/trends at instant now; settings is the caller's user_settings row.
GetTrendsRequest(userId, settings, now) ==
    /\ ret' = Returned(
           [now |-> now, user |-> userId,
            response |->
                GetTrends(userId, settings, TrendsRows(userId),
                          SelectSeq(daily_activity, LAMBDA a : a.user_id = userId),
                          now)])
    /\ UNCHANGED <<call, appVars, homeVars, restVars>>

MaxRangeRequests == 2

\* Instants of the evening and the night of 30 January 2026, UTC.
RangeInstants ==
    {Utc(2026, 1, 30, 5, 3), Utc(2026, 1, 30, 16, 0), Utc(2026, 1, 30, 23, 30),
     Utc(2026, 1, 31, 2, 0)}

RangeZones == {"", "Asia/Tokyo", "America/Los_Angeles", "Europe/London", "UTC"}

\* The server's clock does not run backwards.
NotBefore(now) == \A i \in 1..Len(entries) : entries[i].created_at <= now

InitRange ==
    /\ timezone \in RangeZones
    /\ entries = <<>> /\ entry_items = <<>> /\ nextId = 1
    /\ lastReq = NoReq /\ served = 0
    /\ IdleDate /\ IdleHome /\ IdleRest

\* A meal without a date in its text, logged from a client whose clock is the
\* server's.
RangePost ==
    /\ served < MaxRangeRequests
    /\ ~ret.done
    /\ \E now \in RangeInstants, meal \in AllMeals :
          /\ NotBefore(now)
          /\ PostEntries("u1", [PlainRequest EXCEPT !.client_timestamp = Given(now)],
                         meal, now, FALSE, FALSE)
    /\ UNCHANGED <<dateVars, homeVars, restVars>>

RangeTrends ==
    /\ ~ret.done
    /\ \E now \in RangeInstants, u \in {"u1", NoUser} :
          /\ NotBefore(now)
          /\ GetTrendsRequest(u, Given(Profile(Given(7000), Given(17500), Given(30),
                                               Given("male"), 500)), now)

NextRange == RangePost \/ RangeTrends

SpecRange == InitRange /\ [][NextRange]_vars

-----------------------------------------------------------------------------
(* Properties of the energy calculator *)

\* r is n / d rounded to the nearest integer, a tie going up.
IsRounded(r, n, d) == 2 * d * r - d <= 2 * n /\ 2 * n < 2 * d * r + d

\* 10 w + 6.25 h - 5 a + 5 or - 161, times 10000, from the call's arguments
\* in hundredths of kg and cm.
Equation(c) ==
    100 * (10 * c.weightKg) + (625 * c.heightCm) - 10000 * (5 * c.ageYears)
    + 10000 * (IF c.sex = "male" THEN 5 ELSE 0 - 161)

\* C14: calculate_bmr returns the Mifflin-St Jeor sum unrounded, and
\* calculateBMR returns that sum, nine tenths of it and eleven tenths of it,
\* each rounded to the nearest integer on its own.
C14_BmrAndBand ==
    ret.done =>
        /\ call.fn = "calculate_bmr" => ret.value = Equation(call)
        /\ call.fn = "calculateBMR" =>
              /\ IsRounded(ret.value.bmr, Equation(call), 10000)
              /\ IsRounded(ret.value.bmr_low, 9 * Equation(call), 100000)
              /\ IsRounded(ret.value.bmr_high, 11 * Equation(call), 100000)

\* A call for which scaling the rounded estimate would give another bound.
C14_Witness ==
    /\ ret.done /\ call.fn = "calculateBMR" /\ call.sex = "female"
    /\ ~IsRounded(ret.value.bmr_low, 9 * ret.value.bmr, 10)
    /\ Equation(call) % 10000 # 0

\* The profile has weight, height, age and sex.
Complete(settings) ==
    /\ settings.weight_kg # Absent /\ settings.height_cm # Absent
    /\ settings.age_years # Absent /\ settings.sex # Absent

\* The day's energy expenditure before rounding, in 1/16000 kcal, from the
\* profile and the level's multiplier in thousandths.
Expenditure(settings, thousandths) ==
    LET c == [weightKg |-> settings.weight_kg[1], heightCm |-> settings.height_cm[1],
              ageYears |-> settings.age_years[1], sex |-> settings.sex[1]]
    IN  (Equation(c) \div 25) * (thousandths \div 25)

\* C15: with a complete profile the target calories are the TDEE less the
\* signed deficit, rounded: in calculateTDEE and calculateFullTDEE, on the
\* dashboard, and for every day of the trends endpoint's chartData.
C15_TargetIsTdeeLessDeficit ==
    ret.done =>
        /\ call.fn = "calculateTDEE" =>
              ret.value.target_calories = ret.value.tdee - call.calorieDeficit
        /\ (call.fn = "calculateFullTDEE" /\ Complete(call.settings)) =>
              /\ ret.value # Absent
              /\ ret.value[1].target_calories =
                     ret.value[1].tdee - call.settings.calorie_deficit[1]
        /\ (call.fn = "Home" /\ call.settings # Absent /\ Complete(call.settings[1])) =>
              /\ ret.value.targetCalories # Absent
              /\ IsRounded(ret.value.targetCalories[1],
                           Expenditure(call.settings[1],
                                       multipliers[fetchActivity(call.stored)])
                           - 16000 * call.settings[1].calorie_deficit[1], 16000)
        /\ (call.fn = "trends" /\ call.settings # Absent /\ Complete(call.settings[1])) =>
              \A i \in 1..Len(ret.value.chartData) :
                 LET day == ret.value.chartData[i]
                 IN  /\ day.tdee # Absent
                     /\ day.targetCalories =
                            Given(day.tdee[1] - call.settings[1].calorie_deficit[1])

\* The profile is missing, or lacks one of weight, height, age and sex.
Incomplete(settings) == settings = Absent \/ ~Complete(settings[1])

\* C16: when the profile lacks one of weight, height, age and sex, every
\* TDEE or target output is null: the result of calculateFullTDEE, both
\* targets of the dashboard, and on the trends endpoint every day's tdee,
\* targetCalories, targetProtein, deficit and proteinPercent, the two means
\* derived from them and the protein target of the settings.
C16_IncompleteProfileGivesNothing ==
    ret.done =>
        /\ (call.fn = "calculateFullTDEE" /\ ~Complete(call.settings)) =>
              ret.value = Absent
        /\ (call.fn = "Home" /\ Incomplete(call.settings)) =>
              ret.value.targetCalories = Absent /\ ret.value.targetProtein = Absent
        /\ (call.fn = "trends" /\ call.user # NoUser /\ Incomplete(call.settings)) =>
              /\ \A i \in 1..Len(ret.value.chartData) :
                    LET day == ret.value.chartData[i]
                    IN  /\ day.tdee = Absent /\ day.targetCalories = Absent
                        /\ day.targetProtein = Absent
                        /\ day.deficit = Absent /\ day.proteinPercent = Absent
              /\ \A w \in {"week", "month"} :
                    ret.value.averages[w] # Absent =>
                        /\ ret.value.averages[w][1].avgDeficit = Absent
                        /\ ret.value.averages[w][1].avgProteinPercent = Absent
              /\ ret.value.settings # Absent =>
                    ret.value.settings[1].targetProtein = Absent

\* The days of chartData that fall in the window of the last n days.
Window(n) == SelectSeq(ret.value.chartData, LAMBDA d : d.date > Today - n)

\* The statistics of the window of the last n days, null when it is empty.
Averages(n) == IF n = 7 THEN ret.value.averages.week ELSE ret.value.averages.month

\* C17: in the statistics of each period, avgDeficit is the mean over the
\* days that have a TDEE and avgProteinPercent the mean over the days that
\* have a protein target, the nutrient means are over all the logged days of
\* the period, and the number of days reported is, for the nutrient means,
\* the number of logged days and, for the deficit, the number of days that
\* have a TDEE.
C17_EachMeanWithItsDays ==
    (ret.done /\ call.fn = "trends" /\ call.user # NoUser) =>
        \A n \in {7, 30} :
           LET data        == Window(n)
               withTdee    == SelectSeq(data, LAMBDA d : d.tdee # Absent)
               withProtein == SelectSeq(data, LAMBDA d : d.targetProtein # Absent)
           IN  IF Len(data) = 0 THEN Averages(n) = Absent
               ELSE /\ Averages(n) # Absent
                    /\ LET a == Averages(n)[1]
                       IN  /\ IsRounded(a.avgCalories, SumDays(data, "calories"),
                                        100 * Len(data))
                           /\ IsRounded(a.avgFiber, SumDays(data, "fiber"),
                                        100 * Len(data))
                           /\ IF Len(withTdee) = 0 THEN a.avgDeficit = Absent
                              ELSE /\ a.avgDeficit # Absent
                                   /\ IsRounded(a.avgDeficit[1],
                                                SumGiven(withTdee, "deficit"),
                                                100 * Len(withTdee))
                           /\ IF Len(withProtein) = 0 THEN a.avgProteinPercent = Absent
                              ELSE /\ a.avgProteinPercent # Absent
                                   /\ IsRounded(a.avgProteinPercent[1],
                                                SumGiven(withProtein, "proteinPercent"),
                                                Len(withProtein))
                           /\ a.daysTracked = Len(data)
                           /\ a.daysTracked = Len(withTdee)

\* The thresholds for a target and a sex, as the claim gives them.
Thresholds(targetCalories, sex, t) ==
    /\ IsRounded(t.saturatedFatLimit, targetCalories, 90)
    /\ t.sodiumLimit = 2300
    /\ t.addedSugarLimit = (IF sex = Given("male") THEN 36 ELSE 25)
    /\ t.fiberTarget = (IF sex = Given("male") THEN 38 ELSE 25)

\* C18: wherever the dashboard has a target, its thresholds are the
\* saturated-fat limit round(0.10 * target / 9), the sodium limit 2300, and
\* the added-sugar limit and fiber target of the sex; the thresholds of the
\* trends endpoint are those that the dashboard derives from the same target
\* and sex.
C18_ThresholdsOfTargetAndSex ==
    ret.done =>
        /\ (call.fn = "Home" /\ ret.value.targetCalories # Absent) =>
              Thresholds(ret.value.targetCalories[1], call.settings[1].sex,
                         [saturatedFatLimit |-> ret.value.recs.saturatedFat.limit,
                          sodiumLimit |-> ret.value.recs.sodium.limit,
                          addedSugarLimit |-> ret.value.recs.addedSugar.limit,
                          fiberTarget |-> ret.value.recs.fiber.target])
        /\ (call.fn = "trends" /\ call.user # NoUser /\ call.settings # Absent) =>
              LET r == TrendsRecommendations(call.settings, TrendsBmr(call.settings))
                  d == getRecommendations(Given(r.targetCalories), call.settings[1].sex)
              IN  /\ ret.value.recommendations.saturatedFatLimit = d.saturatedFat.limit
                  /\ ret.value.recommendations.sodiumLimit = d.sodium.limit
                  /\ ret.value.recommendations.addedSugarLimit = d.addedSugar.limit
                  /\ ret.value.recommendations.fiberTarget = d.fiber.target

-----------------------------------------------------------------------------
(* Properties of the day's activity level *)

\* The rows of a user and a date.
ActivityOf(userId, date) ==
    {i \in 1..Len(daily_activity) :
        daily_activity[i].user_id = userId /\ daily_activity[i].resolved_date = date}

\* C19: whichever way the requests interleave, a user has at most one row of
\* daily_activity for a date, and the row holds the level of the last request
\* for that user and date that succeeded.
C19_OneLevelPerDay ==
    \A i \in 1..Len(daily_activity) :
       LET r == daily_activity[i]
       IN  /\ ActivityOf(r.user_id, r.resolved_date) = {i}
           /\ <<r.user_id, r.resolved_date, r.activity_level_id>> \in lastActivity

\* Two requests of one user for one date ran their deletes before either
\* insert: one succeeded, the other was refused, and the row is the first's.
C19_Witness ==
    /\ served = 2 /\ \A h \in Handlers : posting[h].pc = "idle"
    /\ posting[1].status = 200 /\ posting[2].status = 500
    /\ posting[2].error = "unique" /\ posting[2].deleted
    /\ posting[1].user = posting[2].user /\ posting[1].date = posting[2].date
    /\ posting[1].level = 2 /\ posting[2].level = 4
    /\ daily_activity = <<[user_id |-> posting[1].user,
                           resolved_date |-> posting[1].date,
                           activity_level_id |-> 2]>>

-----------------------------------------------------------------------------
(* Properties of deleting an entry *)

\* Every stored item references a stored entry.
NoOrphan ==
    \A i \in 1..Len(entry_items) : entry_items[i].entry_id \in EntryIds

\* Some user's entries of some date, as GET /api/entries returns them for
\* the dashboard's totals, hold the entry or one of its items.
Contributes(id) ==
    \E u \in {"u1", "u2"}, j \in 1..Len(entries) :
       LET es == GetEntries(u, entries[j].resolved_date)
       IN  \E k \in 1..Len(es) :
              \/ es[k].id = id
              \/ \E n \in 1..Len(es[k].entry_items) : es[k].entry_items[n].entry_id = id

Gone(id) ==
    /\ id \notin EntryIds
    /\ \A i \in 1..Len(entry_items) : entry_items[i].entry_id # id
    /\ ~Contributes(id)

\* C20: deleting an entry deletes its items in the same step. Every stored
\* item references a stored entry, and after a DELETE /api/entries/[id] of
\* the caller's entry answered success, the entry and its items are gone
\* from the store and from the entries every total is summed from.
C20_OwnerDeleteCascades ==
    /\ NoOrphan
    /\ (lastReq.op = "DELETE" /\ lastReq.status = 200 /\ lastReq.user = lastReq.owner)
          => Gone(lastReq.id)

\* The owner deleted an entry of two items, and another entry's item stays.
C20_Witness ==
    /\ lastReq.op = "DELETE" /\ lastReq.status = 200
    /\ lastReq.user = lastReq.owner /\ lastReq.items = 2
    /\ Len(entry_items) = 1 /\ Gone(lastReq.id)

-----------------------------------------------------------------------------
(* Properties of entry creation with inconsistent estimates *)

Brackets(item, value, low, high) == item[low] <= item[value] /\ item[value] <= item[high]

\* The inconsistencies the claim names, stated on the item alone.
BoundsOff(item) ==
    \/ ~Brackets(item, "calories", "calories_low", "calories_high")
    \/ ~Brackets(item, "protein_g", "protein_low", "protein_high")
    \/ ~Brackets(item, "carbs_g", "carbs_low", "carbs_high")
    \/ ~Brackets(item, "fat_g", "fat_low", "fat_high")

FatOff(item) ==
    /\ item.fat_g > 100
    /\ 5 * Abs(item.saturated_fat_g + item.unsaturated_fat_g - item.fat_g) > item.fat_g

ItemsOf(id) == SelectSeq(entry_items, LAMBDA r : r.entry_id = id)

\* The stored rows carry the estimator's values, item by item.
StoredAsParsed(id, items) ==
    /\ Len(ItemsOf(id)) = Len(items)
    /\ \A k \in 1..Len(items) :
          \A n \in DOMAIN items[k] : ItemsOf(id)[k][n] = items[k][n]

WarnedAbout(item, kind) ==
    /\ lastReq.validation_warnings # Absent
    /\ \E k \in 1..Len(lastReq.validation_warnings[1]) :
          /\ lastReq.validation_warnings[1][k].food_name = item.food_name
          /\ lastReq.validation_warnings[1][k].kind = kind

\* C21: a POST whose parsed meal has an item with a bound pair that does
\* not bracket its value, or a fat breakdown more than 20% off the total,
\* and whose inserts the database accepts, answers 201, stores the entry and
\* every parsed item with the estimator's values, and returns a warning for
\* each such item.
C21_WarningsNeverBlock ==
    (/\ lastReq.op = "POST" /\ lastReq.user # NoUser /\ ~lastReq.meal.throws
     /\ ~lastReq.entry_fails /\ ~lastReq.items_fail
     /\ \E k \in 1..Len(lastReq.meal.items) :
           BoundsOff(lastReq.meal.items[k]) \/ FatOff(lastReq.meal.items[k]))
    => /\ lastReq.status = 201
       /\ lastReq.id \in EntryIds
       /\ StoredAsParsed(lastReq.id, lastReq.meal.items)
       /\ \A k \in 1..Len(lastReq.meal.items) :
             LET item == lastReq.meal.items[k]
             IN  /\ BoundsOff(item) => WarnedAbout(item, "range invalid")
                 /\ FatOff(item) => WarnedAbout(item, "fat breakdown doesn't match total")

\* Soup and fries were posted together: three warnings, both items stored.
C21_Witness ==
    /\ lastReq.op = "POST" /\ lastReq.status = 201
    /\ lastReq.meal.items = <<Soup, Fries>>
    /\ lastReq.validation_warnings # Absent
    /\ Len(lastReq.validation_warnings[1]) = 3
    /\ StoredAsParsed(lastReq.id, <<Soup, Fries>>)

-----------------------------------------------------------------------------
(* Properties of a created entry *)

\* C22: in every step, an entry that is stored before and after it is the
\* same row, raw text, creation timestamp, resolved_date and explicit-date
\* flag, and an entry that appears has an id no entry had before.
C22_EntryImmutable ==
    [][ /\ \A i \in 1..Len(entries), j \in 1..Len(entries') :
              entries[i].id = entries'[j].id =>
                 /\ entries'[j].raw_text = entries[i].raw_text
                 /\ entries'[j].created_at = entries[i].created_at
                 /\ entries'[j].resolved_date = entries[i].resolved_date
                 /\ entries'[j].explicit_date_in_text = entries[i].explicit_date_in_text
                 /\ entries'[j].user_id = entries[i].user_id
        /\ \A j \in 1..Len(entries') :
              entries'[j].id \notin EntryIds => entries'[j].id >= nextId ]_vars

\* An entry posted under one timezone is stored, the timezone has changed
\* since, one of its items is overridden and an activity level is stored.
C22_Witness ==
    /\ Len(entries) = 1 /\ lastReq.op = "PATCH" /\ lastReq.status = 200
    /\ timezone = "Asia/Tokyo"
    /\ entries[1].resolved_date # getTodayInTimezone(entries[1].created_at, timezone)

-----------------------------------------------------------------------------
(* Properties of the session tokens *)

\* C23: the token created for a user id parses to exactly that id and to
\* no other user's; the empty token, a token shorter than 10 characters and
\* a token whose decoded text is not userId:randomToken parse to null.
C23_TokenRoundTrip ==
    (ret.done /\ ret.value.stage = "parsed") =>
        /\ call.fn = "createSessionToken" =>
              /\ ret.value.userId = Str(call.userId)
              /\ \A other \in UserIds \ {call.userId} : ret.value.userId # Str(other)
        /\ call.fn = "parseSessionToken" => ret.value.userId = NullStr

\* The token of user-1 was parsed, with user-12 among the users, and the
\* token is not the payload itself.
C23_Witness ==
    /\ ret.done /\ ret.value.stage = "parsed" /\ call.fn = "createSessionToken"
    /\ call.userId = <<"u", "s", "e", "r", "-", "1">>
    /\ ret.value.userId = Str(call.userId)
    /\ ret.value.token # call.userId \o <<":">> \o call.randomPart
    /\ Len(ret.value.token) >= 10

-----------------------------------------------------------------------------
(* Properties of the bounds after an override *)

\* Value, low and high of the nine nutrients.
Estimates ==
    {<<"calories", "calories_low", "calories_high">>,
     <<"protein_g", "protein_low", "protein_high">>,
     <<"carbs_g", "carbs_low", "carbs_high">>,
     <<"fat_g", "fat_low", "fat_high">>,
     <<"saturated_fat_g", "saturated_fat_low", "saturated_fat_high">>,
     <<"unsaturated_fat_g", "unsaturated_fat_low", "unsaturated_fat_high">>,
     <<"fiber_g", "fiber_low", "fiber_high">>,
     <<"sodium_mg", "sodium_low", "sodium_high">>,
     <<"added_sugar_g", "added_sugar_low", "added_sugar_high">>}

Bracketed(item) == \A e \in Estimates : Brackets(item, e[1], e[2], e[3])

\* C24: after a successful override of an item whose every value lay within
\* its bounds, every value of the item lies within its bounds.
C24_BoundsBracketAfterOverride ==
    (Overridden /\ Bracketed(Before)) => Bracketed(After)

-----------------------------------------------------------------------------
(* Properties of the outcomes of entry creation *)

\* C25: every POST /api/entries either stores one new entry together with
\* all the parsed items, or leaves entries and entry_items as they were.
C25_AllOrNothing ==
    [][ lastReq'.op = "POST" =>
           \/ entries' = entries /\ entry_items' = entry_items
           \/ /\ Len(entries') = Len(entries) + 1
              /\ lastReq'.id \notin EntryIds
              /\ \E j \in 1..Len(entries') : entries'[j].id = lastReq'.id
              /\ Len(SelectSeq(entry_items', LAMBDA r : r.entry_id = lastReq'.id))
                    = Len(lastReq'.meal.items) ]_vars

-----------------------------------------------------------------------------
(* Properties of a failed change of the activity level *)

\* C26: when no request is under way and a POST /api/activity has answered
\* 500, the level last stored with success for its user and date is still
\* the level of a stored row.
C26_FailedPostKeepsLevel ==
    \A h \in Handlers :
       (/\ \A g \in Handlers : posting[g].pc = "idle"
        /\ posting[h].status = 500)
       => \A t \in lastActivity :
             (t[1] = posting[h].user /\ t[2] = posting[h].date)
             => \E i \in 1..Len(daily_activity) :
                   /\ daily_activity[i].user_id = t[1]
                   /\ daily_activity[i].resolved_date = t[2]
                   /\ daily_activity[i].activity_level_id = t[3]


----------------------------------------------------------------------------
\* Properties of requests on another user's rows.

\* The rows a user owns: entries by user_id, items through their entry,
\* activity rows by user_id.
OwnedEntries(u) == SelectSeq(entries, LAMBDA e : e.user_id = u)

OwnedItems(u) ==
    SelectSeq(entry_items,
              LAMBDA r : \E j \in 1..Len(entries) :
                            entries[j].id = r.entry_id /\ entries[j].user_id = u)

OwnedActivity(u) == SelectSeq(daily_activity, LAMBDA a : a.user_id = u)

\* The user a step's request is authenticated as.
Actor ==
    IF posting' # posting
    THEN LET h == CHOOSE k \in Handlers : posting'[k] # posting[k]
         IN  IF "user" \in DOMAIN posting'[h] THEN posting'[h].user ELSE NoUser
    ELSE lastReq'.user

----------------------------------------------------------------------------
\* Properties of the three computations of the energy target.

\* For the profile and the stored level of a dashboard render: the level that
\* fetchActivity gives, what calculateFullTDEE returns for it, and the chart day
\* of the trends endpoint for a day with the same stored level.
DayLevel == fetchActivity(call.stored)

FullOfDay == calculateFullTDEE(call.settings[1], DEFAULT_ACTIVITY_LEVELS[DayLevel])

TrendsOfDay ==
    ChartDay(call.settings, TrendsBmr(call.settings),
             IF call.stored = Absent THEN <<>>
             ELSE <<[resolved_date |-> Today, activity_level_id |-> call.stored[1]]>>,
             <<LoggedOn(0, <<Toast>>)>>, Today)

\* C28: for the same profile, deficit and day, the dashboard's target calories,
\* the trends endpoint's tdee and targetCalories of the day, and the tdee and
\* target_calories of calculateFullTDEE are equal, each with the level stored
\* for the day, or level 3 when none is stored.
C28_ThreeComputationsAgree ==
    (/\ call.fn = "Home" /\ ret.done
     /\ call.settings # Absent /\ FullOfDay # Absent) =>
        /\ ret.value.targetCalories = Given(FullOfDay[1].target_calories)
        /\ TrendsOfDay.targetCalories = Given(FullOfDay[1].target_calories)
        /\ TrendsOfDay.tdee = Given(FullOfDay[1].tdee)

----------------------------------------------------------------------------
\* Properties of the date range of the trends endpoint.

\* The zone the user's dates are resolved in.
ZoneOfCaller == IF timezone # "" THEN timezone ELSE DEFAULT_TIMEZONE

\* C29: when GET /api/trends has answered, every entry of the caller whose
\* resolved_date is the caller's local date at that instant has its day in
\* chartData, and the 7-day and the 30-day averages are computed over some day.
C29_TodayInsideRange ==
    (ret.done /\ ret.value.response.status = 200) =>
        \A i \in 1..Len(entries) :
            (/\ entries[i].user_id = ret.value.user
             /\ entries[i].resolved_date = getTodayInTimezone(ret.value.now, ZoneOfCaller)) =>
                /\ \E k \in 1..Len(ret.value.response.chartData) :
                       ret.value.response.chartData[k].date
                           = DayOfString(entries[i].resolved_date)
                /\ ret.value.response.averages.week # Absent
                /\ ret.value.response.averages.month # Absent

----------------------------------------------------------------------------
\* Properties of an override that changes nothing.

\* The last request was an override that was applied and in which no field
\* sent differs from the item's value.
NoOpOverride ==
    /\ Overridden
    /\ \A f \in DOMAIN NoBody : ~Differs(lastReq.body, Before, f)

\* C30: an override in which no field differs from the item's current values
\* leaves the item's values, bounds, has_override and override_fields as they
\* were (a list that is null counting as the empty list), and in every state an
\* item with has_override set has a field recorded in override_fields.
C30_NoOpOverrideChangesNothing ==
    /\ NoOpOverride =>
          /\ \A n \in DOMAIN Before \ {"override_fields"} : After[n] = Before[n]
          /\ After.override_fields.list = Before.override_fields.list
    /\ \A i \in 1..Len(entry_items) :
          entry_items[i].has_override => entry_items[i].override_fields.list # <<>>

=============================================================================
